---- MODULE Spec2Model ----
(***************************************************************************)
(* A model of baton, the host-side control surface of the PreSonus Studio  *)
(* 1824c: the mixer model and its writer (src/usb.rs), the MIDI mapping    *)
(* and its learn mode (src/midi_control.rs) and the two front-ends that    *)
(* drive them (src/main.rs, the terminal UI, and src/gui_main.rs, the      *)
(* desktop GUI).                                                           *)
(*                                                                         *)
(* Numbers.  An f64 is modelled in fixed point: faders, balances and the   *)
(* values derived from them are integers counting tenths (a fader of       *)
(* -96.0 dB is -960, a balance of 100.0 is 1000), meter readings are       *)
(* integers counting millionths of a dB.  The three values of an f64 that  *)
(* are no number of that scale are NaN, PosInf and NegInf; every           *)
(* comparison and every clamp goes through FLt / FGt / FClamp, which treat *)
(* them as IEEE 754 does.                                                  *)
(*                                                                         *)
(* Left out.  The `active` flag of a strip and the fields the front-ends   *)
(* keep for drawing only (status line, scroll offsets, widget ids) take    *)
(* part in no handler modelled here.  A panic ends the process:            *)
(* app.aborted is set and no handler runs any more.                        *)
(***************************************************************************)
EXTENDS Integers, Sequences, FiniteSets, TLC

VARIABLES
    ps,      \* usb::PreSonusStudio1824c: mixes, meters, cached switches, poll counter
    app,     \* App (main.rs) / BatonApp (gui_main.rs): the front-end's own fields
    device,  \* the device's end of the wire: the value last received per address
    env,     \* the environment: wall clock, MIDI queue, mapping file
    obs      \* the last handler run and the commands it sent

vars == <<ps, app, device, env, obs>>

-----------------------------------------------------------------------------
(* Program constants *)

NumChannels == 36
NumMixes == 9
StripMin == -960
StripMax == 100
BalanceMin == -1000
BalanceMax == 1000
ClipThreshold == -1000

(* Bounds of the model *)

\* Strips 0 .. MaxStrip, the last channel strip and the bus strip are the strips
\* the user and the MIDI controller act on.
MaxStrip == 0
\* On a lossy transport one of the sends 1 .. MaxFailPos of a handler may fail.
MaxFailPos == 1
\* The MIDI worker's queue holds at most MaxQueue messages between two ticks.
MaxQueue == 2

Channels == 0 .. (NumChannels - 1)
Mixes == 0 .. (NumMixes - 1)
BusIndex == NumChannels
StripInputs == (0 .. MaxStrip) \cup {NumChannels - 1, BusIndex}
\* The first and the last mix are the mixes they act on.
MixInputs == {0, NumMixes - 1}
FailSets == {{}} \cup {{k} : k \in 1 .. MaxFailPos}

-----------------------------------------------------------------------------
(* f64 *)

NaN == 2 * 10^9
PosInf == 10^9
NegInf == 0 - 10^9

FLt(a, b) == a # NaN /\ b # NaN /\ a < b
FGt(a, b) == FLt(b, a)

\* f64::clamp: a NaN is returned as it is.
FClampBelowOnly(x, lo, hi) == IF FLt(x, lo) THEN lo ELSE x
FClamp(x, lo, hi) == IF FLt(x, lo) THEN lo ELSE IF FGt(x, hi) THEN hi ELSE x

FAdd(a, b) ==
    IF a = NaN \/ b = NaN THEN NaN
    ELSE IF a \in {PosInf, NegInf} THEN (IF b \in {PosInf, NegInf} /\ b # a THEN NaN ELSE a)
    ELSE IF b \in {PosInf, NegInf} THEN b
    ELSE a + b

-----------------------------------------------------------------------------
(* Value, Command: what usb.rs hands to the command encoder *)

VMuted == [tag |-> "Muted", db |-> 0]
VUnity == [tag |-> "Unity", db |-> 0]
VDB(x) == [tag |-> "DB", db |-> x]
\* A button's value: 1 for on, 0 for off.
VBool(on) == [tag |-> "Bool", db |-> IF on THEN 1 ELSE 0]
\* Nothing received yet.
VNone == [tag |-> "None", db |-> 0]

set_input_fader(channel, bus, side, value) ==
    [mode |-> "input", input_strip |-> channel, output_bus |-> bus,
     output_channel |-> side, value |-> value]

set_output_fader(bus, value) ==
    [mode |-> "output", input_strip |-> bus, output_bus |-> 0,
     output_channel |-> "Left", value |-> value]

set_button(button, on) ==
    [mode |-> "button", input_strip |-> 0, output_bus |-> 0,
     output_channel |-> button, value |-> VBool(on)]

\* The device keeps the value of the last command it received per address.
Receive(dev, cmd) ==
    IF cmd.mode = "input"
    THEN [dev EXCEPT !.input[cmd.output_bus][cmd.input_strip][cmd.output_channel] = cmd.value]
    ELSE IF cmd.mode = "output"
    THEN [dev EXCEPT !.output[cmd.input_strip] = cmd.value]
    ELSE [dev EXCEPT !.button[cmd.output_channel] = cmd.value]

\* A handler that gave up at its first failed send would log no further command.
LoggedUntilError(w, cmds, fails) ==
    LET base == Len(w.obs.sent)
        failed == {k \in 1 .. Len(cmds) : (base + k) \in fails}
        last == IF failed = {} THEN Len(cmds) ELSE CHOOSE k \in failed : \A j \in failed : k <= j
    IN  [k \in 1 .. last |-> [cmd |-> cmds[k], ok |-> (base + k) \notin fails]]

\* command.set_...().send(&device) for each command of cmds in turn: the k-th is
\* the send at position Len(sent) + k of the handler's sequence; a send that
\* fails is logged and the handler goes on.
Logged(w, cmds, fails) ==
    [k \in 1 .. Len(cmds) |-> [cmd |-> cmds[k], ok |-> (Len(w.obs.sent) + k) \notin fails]]

Send1(w, cmd, fails) ==
    LET ok == (Len(w.obs.sent) + 1) \notin fails
    IN  [w EXCEPT !.obs.sent = Append(@, [cmd |-> cmd, ok |-> ok]),
                  !.device = IF ok THEN Receive(@, cmd) ELSE @]

Send(w, cmds, fails) ==
    IF Len(cmds) = 1 THEN Send1(w, cmds[1], fails)
    ELSE Send1(Send1(w, cmds[1], fails), cmds[2], fails)

-----------------------------------------------------------------------------
(* Strip, Mix *)

\* The names of the mixes, and those of the channels: the 18 input names are
\* string descriptors of the device, for which "IN n" stands, then "DAW n".
MixNames ==
    <<"MAIN 1-2", "MIX 3-4", "MIX 5-6", "MIX 7-8", "S/PDIF", "ADAT 1-2", "ADAT 3-4",
      "ADAT 5-6", "ADAT 7-8">>

ChannelName(i) ==
    IF i < 18 THEN "IN " \o ToString(i + 1) ELSE "DAW " \o ToString(i - 17)

NewStrip(kind, number) ==
    [fader |-> 0, balance |-> 0, solo |-> FALSE, mute |-> FALSE,
     mute_by_solo |-> FALSE, max |-> StripMax, min |-> StripMin,
     kind |-> kind, number |-> number]

MixNew(mix_name, mix_kind, mix_number, number_of_channels) ==
    [name |-> mix_name,
     channel_strips |-> [i \in 0 .. (number_of_channels - 1) |-> NewStrip("Channel", i)],
     bus_strip |-> NewStrip(mix_kind, mix_number)]

\* MixStrips::iter().nth(index): the channel strips in index order, then the bus strip.
HasNth(mix, index) == index \in 0 .. NumChannels
StripNth(mix, index) ==
    IF index < NumChannels THEN mix.channel_strips[index] ELSE mix.bus_strip

SetStripNth(mix, index, strip) ==
    IF index < NumChannels
    THEN [mix EXCEPT !.channel_strips[index] = strip]
    ELSE [mix EXCEPT !.bus_strip = strip]

set_fader(strip, value) == [strip EXCEPT !.fader = FClamp(value, strip.min, strip.max)]

\* A pan law that attenuated the side the strip is panned to.
pan_rule_towards(strip, rule) ==
    IF strip.fader = NaN THEN [left |-> NaN, right |-> NaN]
    ELSE IF strip.balance = NaN THEN [left |-> strip.fader, right |-> strip.fader]
    ELSE LET magnitude == IF strip.balance < 0 THEN 0 - strip.balance ELSE strip.balance
             value == IF rule = "Simple" THEN strip.fader - magnitude
                      ELSE strip.fader - ((strip.balance * strip.balance) \div 960)
         IN  IF strip.balance < 0 THEN [left |-> value, right |-> strip.fader]
             ELSE IF strip.balance > 0 THEN [left |-> strip.fader, right |-> value]
             ELSE [left |-> strip.fader, right |-> strip.fader]

\* Strip::pan_rule(rule), in tenths of a dB.  PanLaw::Simple takes
\* balance.abs() off the other side; PanLaw::Exponential takes
\* balance.abs().powi(2) / 96.0 off it, which is balance^2 / 960 in tenths,
\* held to the tenth.
pan_rule(strip, rule) ==
    IF strip.fader = NaN THEN [left |-> NaN, right |-> NaN]
    ELSE IF strip.balance = NaN THEN [left |-> strip.fader, right |-> strip.fader]
    ELSE LET magnitude == IF strip.balance < 0 THEN 0 - strip.balance ELSE strip.balance
             value == IF rule = "Simple" THEN strip.fader - magnitude
                      ELSE strip.fader - ((strip.balance * strip.balance) \div 960)
         IN  IF strip.balance < 0 THEN [left |-> strip.fader, right |-> value]
             ELSE IF strip.balance > 0 THEN [left |-> value, right |-> strip.fader]
             ELSE [left |-> strip.fader, right |-> strip.fader]

SoloExists(mix) == \E i \in Channels : mix.channel_strips[i].solo

toggle_solo_keep(mix, index) ==
    IF StripNth(mix, index).kind = "Channel"
    THEN [mix EXCEPT !.channel_strips[index].solo = ~@]
    ELSE mix

toggle_solo_sticky(mix, index) ==
    IF StripNth(mix, index).kind = "Channel"
    THEN LET flipped == [mix EXCEPT !.channel_strips[index].solo = ~@]
         IN  [flipped EXCEPT !.channel_strips =
                 [i \in Channels |->
                     [@[i] EXCEPT !.mute_by_solo =
                         IF SoloExists(flipped) THEN ~flipped.channel_strips[i].solo ELSE @]]]
    ELSE mix

toggle_solo(mix, index) ==
    IF StripNth(mix, index).kind = "Channel"
    THEN LET flipped == [mix EXCEPT !.channel_strips[index].solo = ~@]
             solo_exists == SoloExists(flipped)
         IN  [flipped EXCEPT !.channel_strips =
                 [i \in Channels |->
                     [@[i] EXCEPT !.mute_by_solo =
                         IF solo_exists THEN ~flipped.channel_strips[i].solo ELSE FALSE]]]
    ELSE mix

-----------------------------------------------------------------------------
(* The state writer *)

ChannelValueIgnoringSolo(strip, db) ==
    IF strip.mute \/ strip.mute_by_solo THEN VMuted ELSE VDB(db)

\* value = Value::DB(..); if muted & !soloed { value = Value::Muted }
ChannelValue(strip, db) ==
    IF (strip.mute \/ strip.mute_by_solo) /\ ~strip.solo THEN VMuted ELSE VDB(db)

BusValue(strip) ==
    IF strip.mute \/ strip.mute_by_solo THEN VMuted ELSE VDB(strip.fader)

\* The left and the right value of a channel strip's pair of commands.
channel_values(strip) ==
    LET pan == pan_rule(strip, "Exponential")
    IN  [Left |-> ChannelValue(strip, pan.left), Right |-> ChannelValue(strip, pan.right)]

\* The commands of write_channel_fader(mix_index, channel_index): one bus-strip
\* command for the bus strip, a left and a right command for a channel strip.
fader_commands(mixes, mix_index, channel_index) ==
    LET mix == mixes[mix_index]
        strip == StripNth(mix, channel_index)
        number == mix.bus_strip.number
    IN  IF strip.kind \in {"Main", "Bus"}
        THEN << set_output_fader(number, BusValue(strip)) >>
        ELSE LET value == channel_values(strip)
             IN  << set_input_fader(channel_index, number, "Left", value.Left),
                    set_input_fader(channel_index, number, "Right", value.Right) >>

\* A write_channel_fader that sent the right command before the left.
write_channel_fader_right_first(w, mix_index, channel_index, fails) ==
    LET cmds == fader_commands(w.ps.mixes, mix_index, channel_index)
    IN  Send(w, IF Len(cmds) = 2 THEN << cmds[2], cmds[1] >> ELSE cmds, fails)

write_channel_fader(w, mix_index, channel_index, fails) ==
    Send(w, fader_commands(w.ps.mixes, mix_index, channel_index), fails)

\* write_state: for each mix, write_channel_fader of strips 0 .. 35 and then of
\* the bus strip.  The k-th command of the whole sequence, k = 1 .. 657, is
\* command (k - 1) % 73 of mix (k - 1) \div 73.
CommandsPerMix == 2 * NumChannels + 1
WriteStatePos(i, j, side) == CommandsPerMix * i + 2 * j + (IF side = "Left" THEN 1 ELSE 2)
WriteStateBusPos(i) == CommandsPerMix * (i + 1)

\* A write_state that wrote each mix's bus strip before its channel strips.
write_state_commands_bus_first(mixes) ==
    << >> \o [k \in 1 .. (NumMixes * CommandsPerMix) |->
        LET i == (k - 1) \div CommandsPerMix
            r == (k - 1) % CommandsPerMix
        IN  IF r = 0 THEN fader_commands(mixes, i, NumChannels)[1]
            ELSE fader_commands(mixes, i, (r - 1) \div 2)[((r - 1) % 2) + 1]]

write_state_commands(mixes) ==
    LET strips == << >> \o [j \in 1 .. (NumMixes * (NumChannels + 1)) |->
                        fader_commands(mixes, (j - 1) \div (NumChannels + 1),
                                       (j - 1) % (NumChannels + 1))]
    IN  << >> \o [k \in 1 .. (NumMixes * CommandsPerMix) |->
            LET i == (k - 1) \div CommandsPerMix
                r == (k - 1) % CommandsPerMix
            IN  strips[(NumChannels + 1) * i + (r \div 2) + 1][(r % 2) + 1]]

\* The mix whose commands reach bus `number` last (its bus strip carries that
\* number), or -1.
LastMixOf(mixes, number) ==
    LET S == {i \in Mixes : mixes[i].bus_strip.number = number}
    IN  IF S = {} THEN -1 ELSE CHOOSE i \in S : \A j \in S : j <= i

write_state(w, fails) ==
    LET mixes == w.ps.mixes
        cmds == write_state_commands(mixes)
        base == Len(w.obs.sent)
        Okay(k) == (base + k) \notin fails
        In(b) ==
            LET i == LastMixOf(mixes, b)
            IN  IF i < 0 THEN w.device.input[b]
                ELSE [c \in Channels |-> [side \in {"Left", "Right"} |->
                        LET k == WriteStatePos(i, c, side)
                        IN  IF Okay(k) THEN cmds[k].value ELSE w.device.input[b][c][side]]]
        Out(b) ==
            LET i == LastMixOf(mixes, b)
            IN  IF i >= 0 /\ Okay(WriteStateBusPos(i)) THEN cmds[WriteStateBusPos(i)].value
                ELSE w.device.output[b]
    IN  [w EXCEPT !.obs.sent = @ \o Logged(w, cmds, fails),
                  !.device.input = [b \in Mixes |-> In(b)],
                  !.device.output = [b \in Mixes |-> Out(b)]]

\* bypass_mixer: `for m in 0..9` every bus at unity, then `for m in 0..9`,
\* `for c in 0..35`, a left and a right command per channel: unity on the left
\* of daw_channel_left = 18 + 2m and on the right of daw_channel_right, muted
\* everywhere else.  9 + 9 * 35 * 2 commands.
BypassChannels == 35

bypass_value(m, c, side) ==
    LET daw_channel_left == 16 + 2 * (m + 1)
        daw_channel_right == daw_channel_left + 1
    IN  IF c = daw_channel_left THEN (IF side = "Left" THEN VUnity ELSE VMuted)
        ELSE IF c = daw_channel_right THEN (IF side = "Left" THEN VMuted ELSE VUnity)
        ELSE VMuted

BypassPos(m, c, side) ==
    NumMixes + 2 * BypassChannels * m + 2 * c + (IF side = "Left" THEN 1 ELSE 2)

bypass_commands ==
    << >> \o [k \in 1 .. (NumMixes + NumMixes * BypassChannels * 2) |->
        IF k <= NumMixes THEN set_output_fader(k - 1, VUnity)
        ELSE LET m == (k - NumMixes - 1) \div (2 * BypassChannels)
                 r == (k - NumMixes - 1) % (2 * BypassChannels)
                 side == IF r % 2 = 0 THEN "Left" ELSE "Right"
             IN  set_input_fader(r \div 2, m, side, bypass_value(m, r \div 2, side))]

bypass_mixer(w, fails) ==
    LET cmds == bypass_commands
        base == Len(w.obs.sent)
        Okay(k) == (base + k) \notin fails
    IN  [w EXCEPT !.obs.sent = @ \o Logged(w, cmds, fails),
                  !.device.input =
                      [m \in Mixes |-> [c \in Channels |-> [side \in {"Left", "Right"} |->
                          IF c < BypassChannels /\ Okay(BypassPos(m, c, side))
                          THEN bypass_value(m, c, side)
                          ELSE w.device.input[m][c][side]]]],
                  !.device.output =
                      [m \in Mixes |-> IF Okay(m + 1) THEN VUnity ELSE w.device.output[m]]]

\* set_main_mute and its three siblings send one button command; the cached
\* booleans are left to poll_state.
set_1_2_line(w, on, fails) == Send1(w, set_button("Line", on), fails)
set_main_mute(w, on, fails) == Send1(w, set_button("Mute", on), fails)
set_main_mono(w, on, fails) == Send1(w, set_button("Mono", on), fails)
set_phantom_power(w, on, fails) == Send1(w, set_button("Phantom", on), fails)

-----------------------------------------------------------------------------
(* The state poll *)

\* A meter word of the state frame is held by its upper 16 bits, the lower 16
\* being zero.  What the device reports is a `signal`: the meter positions of
\* the frame that read just above the clip threshold, those that read just
\* below it and those that read nothing, and the word `rest` at the others, the
\* frame holding the 8 mic, 2 S/PDIF, 8 ADAT, 18 DAW and 18 bus meters in that
\* order.
WordAt(signal, position) ==
    IF position \in signal.above THEN 32765
    ELSE IF position \in signal.below THEN 32764
    ELSE IF position \in signal.zero THEN 0
    ELSE signal.rest

\* The fields of baton_studio::State after a successful exchange.
Frame(signal, dev) ==
    [mic |-> [i \in 0 .. 7 |-> WordAt(signal, i)],
     spdif |-> [i \in 0 .. 1 |-> WordAt(signal, 8 + i)],
     adat |-> [i \in 0 .. 7 |-> WordAt(signal, 10 + i)],
     daw |-> [i \in 0 .. 17 |-> WordAt(signal, 18 + i)],
     bus |-> [i \in 0 .. 17 |-> WordAt(signal, 36 + i)],
     phantom |-> dev.button["Phantom"].db,
     line |-> dev.button["Line"].db,
     mute |-> dev.button["Mute"].db,
     mono |-> dev.button["Mono"].db]

\* gain_to_db: 20 * log10(word / 0x80000000) in millionths of a dB, -inf for 0.
gain_to_db(word) ==
    CASE word = 0 -> NegInf
      [] word = 1 -> -90308999
      [] word = 16384 -> -6020600
      [] word = 32764 -> -1060
      [] word = 32765 -> -795
      [] word = 32768 -> 0
      [] word = 65535 -> 6020467

CounterModulus == 65536

State_new == [counter |-> 1]

State_poll_pinned(state) == [state EXCEPT !.counter = 1]

\* State::poll: the exchange uses state.counter; the counter advances by one
\* modulo 2^16 after the exchange, whether it succeeded or failed.
State_poll(state) == [state EXCEPT !.counter = (@ + 1) % CounterModulus]

sync_meter_follow(meter, v) ==
    [value |-> v, max |-> v, clip |-> meter.clip \/ FGt(v, ClipThreshold)]

sync_meter_unlatched(meter, v) ==
    [value |-> v,
     max |-> IF FGt(v, meter.max) THEN v ELSE meter.max,
     clip |-> FGt(v, ClipThreshold)]

\* value = v; if v > max { max = v }; if value > -0.001 { clip = true }
sync_meter(meter, v) ==
    [value |-> v,
     max |-> IF FGt(v, meter.max) THEN v ELSE meter.max,
     clip |-> meter.clip \/ FGt(v, ClipThreshold)]

\* The state word channel meter channel_index is synchronised from: the mic
\* words, then S/PDIF, ADAT and DAW, channel_index counting on.
channel_word(state, channel_index) ==
    IF channel_index < 8 THEN state.mic[channel_index]
    ELSE IF channel_index < 10 THEN state.spdif[channel_index - 8]
    ELSE IF channel_index < 18 THEN state.adat[channel_index - 10]
    ELSE state.daw[channel_index - 18]

poll_state_always(w, ok) ==
    LET polled == [w EXCEPT !.ps.state = State_poll(@),
                            !.env.exchanges = @ + 1,
                            !.obs.counter = w.ps.state.counter,
                            !.obs.poll_ok = ok]
        state == Frame(w.env.signal, w.device)
    IN  [polled EXCEPT
            !.ps.channel_meters =
                [i \in Channels |-> sync_meter(@[i], gain_to_db(channel_word(state, i)))],
            !.ps.bus_meters =
                [i \in 0 .. (2 * NumMixes - 1) |-> sync_meter(@[i], gain_to_db(state.bus[i]))],
            !.ps.phantom_power = (state.phantom = 1),
            !.ps.in_1_2_line = (state.line = 1),
            !.ps.main_mute = (state.mute = 1),
            !.ps.main_mono = (state.mono = 1)]

poll_state(w, ok) ==
    LET polled == [w EXCEPT !.ps.state = State_poll(@),
                            !.env.exchanges = @ + 1,
                            !.obs.counter = w.ps.state.counter,
                            !.obs.poll_ok = ok]
        state == Frame(w.env.signal, w.device)
    IN  IF ok
        THEN [polled EXCEPT
                !.ps.channel_meters =
                    [i \in Channels |-> sync_meter(@[i], gain_to_db(channel_word(state, i)))],
                !.ps.bus_meters =
                    [i \in 0 .. (2 * NumMixes - 1) |-> sync_meter(@[i], gain_to_db(state.bus[i]))],
                !.ps.phantom_power = (state.phantom = 1),
                !.ps.in_1_2_line = (state.line = 1),
                !.ps.main_mute = (state.mute = 1),
                !.ps.main_mono = (state.mono = 1)]
        ELSE polled

-----------------------------------------------------------------------------
(* serde_json: numbers *)

\* Option<T>: None is the empty sequence, Some(x) the sequence of x alone.
None == << >>
Some(x) == <<x>>

\* JSON text.  A number is the sequence of its characters, a string is a
\* string, an object is a record of its members, an array is a sequence; a
\* member that is not written is not in the record.
DigitChars == <<"0", "1", "2", "3", "4", "5", "6", "7", "8", "9">>

RECURSIVE Digits(_)
Digits(n) ==
    IF n < 10 THEN <<DigitChars[n + 1]>>
    ELSE Append(Digits(n \div 10), DigitChars[(n % 10) + 1])

\* The value of a sequence of digits, None when it is empty or holds another
\* character.
RECURSIVE DigitsValue(_)
DigitsValue(chars) ==
    IF chars = << >> THEN None
    ELSE LET last == chars[Len(chars)]
             hits == {d \in 0 .. 9 : DigitChars[d + 1] = last}
             front == SubSeq(chars, 1, Len(chars) - 1)
         IN  IF hits = {} THEN None
             ELSE IF front = << >> THEN Some(CHOOSE d \in hits : TRUE)
             ELSE LET high == DigitsValue(front)
                  IN  IF high = None THEN None
                      ELSE Some((10 * high[1]) + (CHOOSE d \in hits : TRUE))

\* An unsigned integer (u8, usize) as JSON.
serialize_u64(n) == Digits(n)

\* A JSON number read as an unsigned integer of at most `max`: a sign, a
\* fraction or a larger value is an error.
deserialize_u64(chars, max) ==
    LET value == DigitsValue(chars)
    IN  IF value # None /\ value[1] <= max THEN value ELSE None

\* An f64 as JSON: the shortest decimal that reads back as the same value,
\* always with a fraction ("-96.0"); a value that is not finite is written as
\* null.  Values count tenths.
serialize_f64(x) ==
    IF x \in {NaN, PosInf, NegInf} THEN <<"null">>
    ELSE LET magnitude == IF x < 0 THEN 0 - x ELSE x
         IN  (IF x < 0 THEN <<"-">> ELSE << >>)
                 \o Digits(magnitude \div 10) \o <<".">> \o Digits(magnitude % 10)

\* A JSON number read as an f64, in tenths; null is not a number.  The fraction
\* is optional and is read to its first digit.
deserialize_f64(chars) ==
    LET negative == chars # << >> /\ chars[1] = "-"
        body == IF negative THEN SubSeq(chars, 2, Len(chars)) ELSE chars
        dots == {i \in 1 .. Len(body) : body[i] = "."}
        whole == IF dots = {} THEN body
                 ELSE SubSeq(body, 1, (CHOOSE i \in dots : TRUE) - 1)
        fraction == IF dots = {} THEN <<"0">>
                    ELSE SubSeq(body, (CHOOSE i \in dots : TRUE) + 1, Len(body))
        high == DigitsValue(whole)
        low == DigitsValue(SubSeq(fraction, 1, 1))
    IN  IF Cardinality(dots) > 1 \/ high = None \/ low = None THEN None
        ELSE LET magnitude == (10 * high[1]) + low[1]
             IN  Some(IF negative THEN 0 - magnitude ELSE magnitude)

-----------------------------------------------------------------------------
(* The mixer-state file *)

\* The fields of a strip that are not #[serde(skip)].
Persisted(strip) ==
    [fader |-> strip.fader, balance |-> strip.balance, solo |-> strip.solo,
     mute |-> strip.mute, mute_by_solo |-> strip.mute_by_solo]

\* Serialize for Strip: the five persisted fields, the numbers as text.
serialize_strip(strip) ==
    [fader |-> serialize_f64(strip.fader), balance |-> serialize_f64(strip.balance),
     solo |-> strip.solo, mute |-> strip.mute, mute_by_solo |-> strip.mute_by_solo]

\* Deserialize for Strip: None when a number cannot be read.
deserialize_strip(object) ==
    LET fader == deserialize_f64(object.fader)
        balance == deserialize_f64(object.balance)
    IN  IF fader = None \/ balance = None THEN None
        ELSE Some([fader |-> fader[1], balance |-> balance[1], solo |-> object.solo,
                   mute |-> object.mute, mute_by_solo |-> object.mute_by_solo])

\* The mixer-state file.  A document is held as what it says where it differs
\* from the serialized state after construction: `edits` maps <<mix, strip
\* index>> to a serialized strip, `channel_names` a channel and `mix_names` a
\* mix to its name; `mixes` and `channel_strips` count the mixes of the
\* document and the channel strips of each.  `text` is "malformed" for a file
\* that is not JSON.
ConfigAbsent ==
    [present |-> FALSE, text |-> "json", mixes |-> NumMixes, channel_strips |-> NumChannels,
     edits |-> << >>, channel_names |-> << >>, mix_names |-> << >>]

\* A document of the full size that says `edits` of the strips.
ConfigFile(edits) ==
    [ConfigAbsent EXCEPT !.present = TRUE,
                         !.edits = [k \in DOMAIN edits |-> serialize_strip(edits[k])]]

ConfigMalformed == [ConfigAbsent EXCEPT !.present = TRUE, !.text = "malformed"]

\* serde_json::to_string_pretty(&self.ps)
state_to_string_pretty(state) ==
    LET strips == {k \in Mixes \X (0 .. NumChannels) :
                      Persisted(StripNth(state.mixes[k[1]], k[2]))
                          # Persisted(NewStrip("Channel", k[2]))}
    IN  [ConfigAbsent EXCEPT
            !.present = TRUE,
            !.edits = [k \in strips |-> serialize_strip(StripNth(state.mixes[k[1]], k[2]))],
            !.channel_names =
                [i \in {c \in Channels : state.channel_names[c] # ChannelName(c)} |->
                    state.channel_names[i]],
            !.mix_names =
                [m \in {x \in Mixes : state.mixes[x].name # MixNames[x + 1]} |->
                    state.mixes[m].name]]

\* Whether serde_json::from_str::<PreSonusStudio1824c>(config) is Ok.
from_str_ok(config) ==
    /\ config.text = "json"
    /\ \A k \in DOMAIN config.edits : deserialize_strip(config.edits[k]) # None

\* serde_json::from_str::<PreSonusStudio1824c>(config): strip j of mix i.
from_str(config, i, j) ==
    IF <<i, j>> \in DOMAIN config.edits THEN deserialize_strip(config.edits[<<i, j>>])[1]
    ELSE Persisted(NewStrip("Channel", j))

\* ... its channel names and the name of mix i.
from_str_channel_names(config) ==
    [c \in Channels |->
        IF c \in DOMAIN config.channel_names THEN config.channel_names[c]
        ELSE ChannelName(c)]

from_str_name(config, i) ==
    IF i \in DOMAIN config.mix_names THEN config.mix_names[i] ELSE MixNames[i + 1]

\* A panic: the process aborts.
panic(w) == [w EXCEPT !.app.aborted = TRUE]

\* Whether load_config runs to its end: from_str(config).unwrap() panics on a
\* text that cannot be read, mix_state[i] and channel_strips[j] on a document
\* with fewer mixes or channel strips than the model.
load_config_ok(config) ==
    /\ from_str_ok(config)
    /\ config.mixes >= NumMixes
    /\ config.channel_strips >= NumChannels


\* A load that installed the strips as deserialized, their skipped fields at
\* Strip::default().
load_config_as_read(w, config) ==
    IF ~load_config_ok(config) THEN panic(w)
    ELSE LET Strip_default(s) ==
                 [fader |-> s.fader, balance |-> s.balance, solo |-> s.solo,
                  mute |-> s.mute, mute_by_solo |-> s.mute_by_solo,
                  max |-> 0, min |-> 0, kind |-> "Channel", number |-> 0]
         IN  [w EXCEPT
                !.ps.channel_names = from_str_channel_names(config),
                !.ps.mixes = [i \in Mixes |->
                    [name |-> from_str_name(config, i),
                     channel_strips |-> [j \in Channels |-> Strip_default(from_str(config, i, j))],
                     bus_strip |-> Strip_default(from_str(config, i, BusIndex))]]]

load_config_whole(w, config) ==
    IF ~load_config_ok(config) THEN panic(w)
    ELSE [w EXCEPT
        !.ps.channel_names = from_str_channel_names(config),
        !.ps.mixes = [i \in Mixes |->
            [name |-> from_str_name(config, i),
             channel_strips |-> [j \in Channels |->
                LET s == from_str(config, i, j)
                IN  [@[i].channel_strips[j] EXCEPT
                        !.fader = s.fader, !.balance = s.balance, !.solo = s.solo,
                        !.mute = s.mute, !.mute_by_solo = s.mute_by_solo]],
             bus_strip |->
                LET s == from_str(config, i, BusIndex)
                IN  [@[i].bus_strip EXCEPT
                        !.fader = s.fader, !.balance = s.balance, !.solo = s.solo,
                        !.mute = s.mute, !.mute_by_solo = s.mute_by_solo]]]]

\* PreSonusStudio1824c::load_config: the channel names, the name of each mix,
\* the five persisted fields of each channel strip, fader and mute of each bus
\* strip.
load_config(w, config) ==
    IF ~load_config_ok(config) THEN panic(w)
    ELSE [w EXCEPT
        !.ps.channel_names = from_str_channel_names(config),
        !.ps.mixes = [i \in Mixes |->
            [name |-> from_str_name(config, i),
             channel_strips |-> [j \in Channels |->
                LET s == from_str(config, i, j)
                IN  [@[i].channel_strips[j] EXCEPT
                        !.fader = s.fader, !.balance = s.balance, !.solo = s.solo,
                        !.mute = s.mute, !.mute_by_solo = s.mute_by_solo]],
             bus_strip |->
                LET s == from_str(config, i, BusIndex)
                IN  [@[i].bus_strip EXCEPT !.fader = s.fader, !.mute = s.mute]]]]

-----------------------------------------------------------------------------
(* midi_control.rs: the MIDI mapping *)

MidiControl(channel, cc) == [channel |-> channel, cc |-> cc]

StripTarget(mix_index, strip_index, control) ==
    [kind |-> "Strip", mix_index |-> mix_index, strip_index |-> strip_index,
     control |-> control]

GlobalTarget(control) ==
    [kind |-> "Global", mix_index |-> 0, strip_index |-> 0, control |-> control]

\* target_min and target_max count tenths, as the faders and balances do.
ValueRange(midi_min, midi_max, target_min, target_max, curve) ==
    [midi_min |-> midi_min, midi_max |-> midi_max, target_min |-> target_min,
     target_max |-> target_max, curve |-> curve]

MidiMappingEntry(midi, target, value_range) ==
    [midi |-> midi, target |-> target, value_range |-> value_range]

\* The order of sort_mappings: by channel, then by controller number.
KeyLess(a, b) == a.channel < b.channel \/ (a.channel = b.channel /\ a.cc < b.cc)


\* A sort that compared the controller number first and the channel second.
sort_mappings_by_cc(mappings) ==
    LET n == Len(mappings)
        less(a, b) == a.cc < b.cc \/ (a.cc = b.cc /\ a.channel < b.channel)
        rank(i) == Cardinality({j \in 1 .. n :
                       \/ less(mappings[j].midi, mappings[i].midi)
                       \/ (mappings[j].midi = mappings[i].midi /\ j < i)})
    IN  << >> \o [p \in 1 .. n |-> mappings[CHOOSE i \in 1 .. n : rank(i) = p - 1]]

\* Vec::sort_by is stable: entries of equal key keep their order.
sort_mappings(mappings) ==
    LET n == Len(mappings)
        rank(i) == Cardinality({j \in 1 .. n :
                       \/ KeyLess(mappings[j].midi, mappings[i].midi)
                       \/ (mappings[j].midi = mappings[i].midi /\ j < i)})
    IN  << >> \o [p \in 1 .. n |-> mappings[CHOOSE i \in 1 .. n : rank(i) = p - 1]]

map_strip(mappings, midi, target, value_range) ==
    Append(mappings, MidiMappingEntry(midi, target, value_range))

map_global(mappings, midi, target) ==
    Append(mappings, MidiMappingEntry(midi, target, None))

\* iter().find(|entry| entry.midi == midi): the first entry of that key.
find(mappings, midi) ==
    LET hits == {i \in 1 .. Len(mappings) : mappings[i].midi = midi}
    IN  IF hits = {} THEN None
        ELSE Some(mappings[CHOOSE i \in hits : \A j \in hits : i <= j])

get_target(mappings, midi) ==
    IF find(mappings, midi) = None THEN None ELSE Some(find(mappings, midi)[1].target)

\* The integer square root: the largest r with r * r <= n.
RECURSIVE Isqrt(_)
Isqrt(n) ==
    IF n < 2 THEN n
    ELSE LET small == 2 * Isqrt(n \div 4)
         IN  IF (small + 1) * (small + 1) > n THEN small ELSE small + 1

ValueRange_transform_linear(range, midi_value) ==
    range.target_min
        + (((midi_value - range.midi_min) * (range.target_max - range.target_min))
               \div (range.midi_max - range.midi_min))

\* ValueRange::transform.  midi_normalized is (value - midi_min) / (midi_max -
\* midi_min), a division of f64s: 0/0 is NaN, x/0 is an infinity of the sign of
\* x.  The result counts tenths, rounded down; the square root is taken to two
\* decimals.
ValueRange_transform(range, midi_value) ==
    LET num == midi_value - range.midi_min
        den == range.midi_max - range.midi_min
        k == IF den < 0 THEN 0 - num ELSE num
        d == IF den < 0 THEN 0 - den ELSE den
        span == range.target_max - range.target_min
        scaled(curved) ==
            IF curved = NaN \/ span = 0 THEN NaN
            ELSE IF (curved = PosInf) = (span > 0) THEN PosInf ELSE NegInf
    IN  IF d = 0
        THEN IF num = 0 THEN NaN
             ELSE IF range.curve = "Linear"
                  THEN scaled(IF num > 0 THEN PosInf ELSE NegInf)
             ELSE IF range.curve = "Exponential" THEN scaled(PosInf)
             ELSE scaled(IF num > 0 THEN PosInf ELSE NaN)
        ELSE IF range.curve = "Linear"
             THEN range.target_min + ((k * span) \div d)
        ELSE IF range.curve = "Exponential"
             THEN range.target_min + ((k * k * span) \div (d * d))
        ELSE IF k < 0 THEN NaN
             ELSE range.target_min + ((Isqrt((10000 * k) \div d) * span) \div 100)

transform_value_of_fader(mappings, midi, midi_value) ==
    LET entry == find(mappings, midi)
    IN  IF entry # None /\ entry[1].value_range # None
        THEN ValueRange_transform(entry[1].value_range[1], midi_value)
        ELSE IF entry # None THEN 10 * midi_value
        ELSE ValueRange_transform(ValueRange(0, 127, -960, 100, "Linear"), midi_value)

\* Without a range the raw byte is the value: midi_value as f64.
transform_value(mappings, midi, midi_value) ==
    LET entry == find(mappings, midi)
    IN  IF entry # None /\ entry[1].value_range # None
        THEN ValueRange_transform(entry[1].value_range[1], midi_value)
        ELSE 10 * midi_value

create_default_strips ==
    LET faders == [i \in 1 .. 8 |->
                      MidiMappingEntry(MidiControl(0, i), StripTarget(0, i - 1, "Fader"),
                          Some(ValueRange(0, 127, -960, 100, "Linear")))]
        balances == [i \in 1 .. 8 |->
                        MidiMappingEntry(MidiControl(0, i + 9), StripTarget(0, i - 1, "Balance"),
                            Some(ValueRange(0, 127, -1000, 1000, "Linear")))]
    IN  faders \o balances

create_default ==
    LET faders == [i \in 1 .. 8 |->
                      MidiMappingEntry(MidiControl(0, i), StripTarget(0, i - 1, "Fader"),
                          Some(ValueRange(0, 127, -960, 100, "Linear")))]
        balances == [i \in 1 .. 8 |->
                        MidiMappingEntry(MidiControl(0, i + 9), StripTarget(0, i - 1, "Balance"),
                            Some(ValueRange(0, 127, -1000, 1000, "Linear")))]
    IN  map_global(faders \o balances, MidiControl(0, 102), GlobalTarget("PhantomPower"))

Inactive == [learning |-> FALSE, target |-> GlobalTarget("None")]

start_learning(target) == [learning |-> TRUE, target |-> target]

learn_mapping_keep(mappings, learn_state, midi, default_range) ==
    IF learn_state.learning
    THEN [mappings |-> map_strip(mappings, midi, learn_state.target, default_range),
          learned |-> TRUE]
    ELSE [mappings |-> mappings, learned |-> FALSE]

\* learn_mapping: the mapping afterwards and whether an entry was learned.
learn_mapping(mappings, learn_state, midi, default_range) ==
    IF learn_state.learning
    THEN LET kept == SelectSeq(mappings, LAMBDA entry : entry.midi # midi)
         IN  [mappings |-> IF learn_state.target.kind = "Strip"
                           THEN map_strip(kept, midi, learn_state.target, default_range)
                           ELSE map_global(kept, midi, learn_state.target),
              learned |-> TRUE]
    ELSE [mappings |-> mappings, learned |-> FALSE]

\* MidiMapping::remove_mapping: the mapping afterwards and whether an entry
\* was removed.
remove_mapping(mappings, midi) ==
    LET kept == SelectSeq(mappings, LAMBDA entry : entry.midi # midi)
    IN  [mappings |-> kept, removed |-> Len(kept) < Len(mappings)]

default_range_for_control(control) ==
    IF control = "Fader" THEN Some(ValueRange(0, 127, -500, 100, "Linear"))
    ELSE IF control = "Balance" THEN Some(ValueRange(0, 127, -1000, 1000, "Linear"))
    ELSE None

\* The mapping file: absent, unparsable, or the list of entries written last.
MappingAbsent == [kind |-> "absent", mappings |-> << >>]
MappingMalformed == [kind |-> "malformed", mappings |-> << >>]

StripControls == {"Fader", "Balance", "Mute", "Solo"}

GlobalControls ==
    {"PhantomPower", "Line1_2", "MainMute", "MainMono", "ActiveMixSelect",
     "ActiveStripSelect"}

Curves == {"Linear", "Exponential", "Logarithmic"}

\* Serialize for ValueRange: an object of five members.
serialize_range(range) ==
    [midi_min |-> serialize_u64(range.midi_min),
     midi_max |-> serialize_u64(range.midi_max),
     target_min |-> serialize_f64(range.target_min),
     target_max |-> serialize_f64(range.target_max),
     curve |-> range.curve]

\* Deserialize for ValueRange: a curve that is not written is Linear
\* (#[serde(default)]), any other member that is missing is an error.
deserialize_range(object) ==
    IF ~({"midi_min", "midi_max", "target_min", "target_max"} \subseteq DOMAIN object)
    THEN None
    ELSE LET midi_min == deserialize_u64(object.midi_min, 255)
             midi_max == deserialize_u64(object.midi_max, 255)
             target_min == deserialize_f64(object.target_min)
             target_max == deserialize_f64(object.target_max)
             curve == IF "curve" \in DOMAIN object THEN object.curve ELSE "Linear"
         IN  IF midi_min = None \/ midi_max = None \/ target_min = None
                    \/ target_max = None \/ curve \notin Curves
             THEN None
             ELSE Some(ValueRange(midi_min[1], midi_max[1], target_min[1],
                                  target_max[1], curve))

serialize_entry_skip_range(entry) ==
    LET midi == [channel |-> serialize_u64(entry.midi.channel),
                 cc |-> serialize_u64(entry.midi.cc)]
    IN  IF entry.target.kind = "Strip"
        THEN [midi |-> midi,
              Strip |-> [mix_index |-> serialize_u64(entry.target.mix_index),
                         strip_index |-> serialize_u64(entry.target.strip_index),
                         control |-> entry.target.control]]
        ELSE [midi |-> midi, Global |-> entry.target.control]

\* Serialize for MidiMappingEntry: the target is flattened into the entry, so
\* its variant, "Strip" or "Global", is a member of the entry next to "midi";
\* value_range is written only when it is Some (skip_serializing_if).
serialize_entry(entry) ==
    LET midi == [channel |-> serialize_u64(entry.midi.channel),
                 cc |-> serialize_u64(entry.midi.cc)]
        strip == [mix_index |-> serialize_u64(entry.target.mix_index),
                  strip_index |-> serialize_u64(entry.target.strip_index),
                  control |-> entry.target.control]
    IN  IF entry.target.kind = "Strip"
        THEN IF entry.value_range = None
             THEN [midi |-> midi, Strip |-> strip]
             ELSE [midi |-> midi, Strip |-> strip,
                   value_range |-> serialize_range(entry.value_range[1])]
        ELSE IF entry.value_range = None
             THEN [midi |-> midi, Global |-> entry.target.control]
             ELSE [midi |-> midi, Global |-> entry.target.control,
                   value_range |-> serialize_range(entry.value_range[1])]

\* Deserialize for ControlTarget, from the members of the entry that are not
\* its own: the member named after a variant.  The writer leaves exactly one.
deserialize_target(object) ==
    IF "Strip" \in DOMAIN object
    THEN LET mix_index == deserialize_u64(object.Strip.mix_index, 2147483647)
             strip_index == deserialize_u64(object.Strip.strip_index, 2147483647)
         IN  IF mix_index = None \/ strip_index = None
                    \/ object.Strip.control \notin StripControls
             THEN None
             ELSE Some(StripTarget(mix_index[1], strip_index[1], object.Strip.control))
    ELSE IF "Global" \in DOMAIN object /\ object.Global \in GlobalControls
         THEN Some(GlobalTarget(object.Global))
    ELSE None

\* Deserialize for MidiMappingEntry: "midi" is required, the target is read
\* from the remaining members, a value_range that is not written is None.
deserialize_entry(object) ==
    IF "midi" \notin DOMAIN object THEN None
    ELSE LET channel == deserialize_u64(object.midi.channel, 255)
             cc == deserialize_u64(object.midi.cc, 255)
             target == deserialize_target(object)
             range == IF "value_range" \in DOMAIN object
                      THEN deserialize_range(object.value_range)
                      ELSE None
         IN  IF channel = None \/ cc = None \/ target = None
                    \/ ("value_range" \in DOMAIN object /\ range = None)
             THEN None
             ELSE Some(MidiMappingEntry(MidiControl(channel[1], cc[1]), target[1], range))

\* serde_json::to_string_pretty(&midi_mapping)
to_string_pretty(mappings) ==
    [kind |-> "json",
     mappings |-> [i \in 1 .. Len(mappings) |-> serialize_entry(mappings[i])]]

\* serde_json::from_str::<MidiMapping>(&contents): the mapping, or None when
\* the text is not JSON or an entry cannot be read.
mapping_from_str(file) ==
    IF file.kind # "json" THEN None
    ELSE LET entries == [i \in 1 .. Len(file.mappings) |->
                            deserialize_entry(file.mappings[i])]
         IN  IF \E i \in 1 .. Len(entries) : entries[i] = None THEN None
             ELSE Some([i \in 1 .. Len(entries) |-> entries[i][1]])

\* A mapping file that is JSON but no mapping: the controller number of its
\* entry is no u8.
MappingUnreadable ==
    [kind |-> "json",
     mappings |-> <<[midi |-> [channel |-> <<"0">>, cc |-> <<"3", "0", "0">>],
                     Global |-> "PhantomPower"]>>]

load_midi_mapping_or_empty(file, available) ==
    LET parsed == IF available THEN mapping_from_str(file) ELSE None
    IN  IF parsed # None THEN parsed[1] ELSE << >>

\* The mapping a front-end starts with: the file's when it has one that can be
\* opened and parsed, the default mapping otherwise.
load_midi_mapping(file, available) ==
    LET parsed == IF available THEN mapping_from_str(file) ELSE None
    IN  IF parsed # None THEN parsed[1] ELSE create_default

-----------------------------------------------------------------------------
(* The state after construction *)

MeterFloor == -96000000

NewMeter == [value |-> MeterFloor, max |-> MeterFloor, clip |-> FALSE]

PreSonusStudio1824c_new ==
    [mixes |-> [m \in Mixes |->
                   MixNew(MixNames[m + 1], IF m = 0 THEN "Main" ELSE "Bus", m, NumChannels)],
     channel_names |-> [i \in Channels |-> ChannelName(i)],
     channel_meters |-> [i \in Channels |-> NewMeter],
     bus_meters |-> [i \in 0 .. (2 * NumMixes - 1) |-> NewMeter],
     in_1_2_line |-> FALSE, main_mute |-> FALSE, main_mono |-> FALSE,
     phantom_power |-> FALSE, state |-> State_new]

DeviceInit ==
    [input |-> [m \in Mixes |-> [c \in Channels |-> [Left |-> VNone, Right |-> VNone]]],
     output |-> [m \in Mixes |-> VNone],
     button |-> [b \in {"Line", "Mute", "Mono", "Phantom"} |-> VNone]]

\* App::new (main.rs) and BatonApp::new (gui_main.rs) in the environment e.  The
\* terminal UI keeps its files under $HOME or the working directory, the GUI
\* under the per-user configuration directory, when there is one.
App_new(frontend, e) ==
    [frontend |-> frontend, active_mix_index |-> 0, active_strip_index |-> 0,
     bypass |-> FALSE, aborted |-> FALSE,
     config_dir |-> (frontend = "tui" \/ e.config_dir),
     midi_input |-> e.midi_port,
     midi_mapping |-> load_midi_mapping(e.mapping_file, frontend = "tui" \/ e.config_dir),
     midi_learn_state |-> Inactive,
     midi_learn_start_time |-> None]

Silence == [above |-> {}, below |-> {}, zero |-> {}, rest |-> 0]

\* The environment: the wall clock in seconds, whether sends and exchanges may
\* fail, the mixer-state file, what the device's meters read, the state-request
\* exchanges made so far and how many are followed; the MIDI port, the messages
\* the controller can send and those queued by the MIDI worker; what the user
\* does in the GUI's strips, the controls learning is started for and the MIDI
\* controls values are transformed for; the mapping
\* file, whether there is a configuration directory and whether files can be
\* created.
EnvInit(lossy, config) ==
    [now |-> 0, lossy |-> lossy, config |-> config, signal |-> Silence,
     exchanges |-> 0, horizon |-> 0,
     midi_port |-> TRUE, controller |-> {}, queue |-> << >>, ui |-> {},
     learnable |-> {}, controls |-> {}, fail_at |-> {},
     events |-> {}, received |-> << >>,
     mapping_file |-> MappingAbsent, config_dir |-> TRUE, writable |-> TRUE]

\* No handler input.
NoInput == [kind |-> "none", strip |-> 0, control |-> "None", value |-> 0, due |-> FALSE]

\* What is recorded of the last handler run: its name and input, the commands it
\* sent, the set_fader calls it made, the calls of save_midi_mapping and the
\* writes of the mapping file, whether the learn timeout fired or Esc left the
\* learn mode; of the last
\* state-request exchange the counter it used and whether it succeeded; the
\* instant learning was last started; and, while the 's' key is pressed again
\* and again on one strip, whether it has been pressed once or twice and the
\* channel strips of the mix before the first press.
NoRun == [count |-> 0, mix |-> 0, index |-> 0, strips |-> << >>]

\* No call of transform_value, and a call with its arguments and its result.
NoCall == [called |-> FALSE, midi |-> MidiControl(0, 0), midi_value |-> 0, result |-> 0]

\* No call of pan_rule, and a call with its arguments and its result.
NoPan == [called |-> FALSE, rule |-> "Exponential", fader |-> 0, balance |-> 0,
          left |-> 0, right |-> 0]

\* No round trip through JSON, and one with the mapping serialized and what
\* was read back.
NoTrip == [called |-> FALSE, mapping |-> << >>, back |-> None]

ObsInit ==
    [last_op |-> "new", sent |-> << >>, counter |-> 0, poll_ok |-> FALSE,
     input |-> NoInput, fader_calls |-> << >>, save_calls |-> 0, saves |-> 0,
     should_save |-> FALSE, timed_out |-> FALSE, cancelled |-> FALSE,
     learning_since |-> 0, solo_run |-> NoRun, transform |-> NoCall,
     roundtrip |-> NoTrip, saved |-> None, pan |-> NoPan, processed |-> << >>]

World == [ps |-> ps, app |-> app, device |-> device, env |-> env, obs |-> obs]

\* A handler starts with an empty command log.
Begin(w, op) ==
    [w EXCEPT !.obs.last_op = op, !.obs.sent = << >>, !.obs.input = NoInput,
              !.obs.fader_calls = << >>, !.obs.save_calls = 0, !.obs.saves = 0,
              !.obs.should_save = FALSE, !.obs.timed_out = FALSE,
              !.obs.cancelled = FALSE,
              !.obs.solo_run = IF op = "toggle_solo" THEN @ ELSE NoRun,
              !.obs.transform = NoCall,
              !.obs.roundtrip = NoTrip,
              !.obs.pan = NoPan]

Becomes(w) ==
    /\ ps' = w.ps
    /\ app' = w.app
    /\ device' = w.device
    /\ env' = w.env
    /\ obs' = w.obs

-----------------------------------------------------------------------------
(* main.rs: the terminal UI's key handlers *)

active_mix(w) == w.ps.mixes[w.app.active_mix_index]

\* set_active_strip clamps the index to 0 ..= channel_strips.len().
set_active_strip(w, strip_index) ==
    [w EXCEPT !.app.active_strip_index =
        IF strip_index < 0 THEN 0
        ELSE IF strip_index > NumChannels THEN NumChannels ELSE strip_index]

set_active_mix(w, index) ==
    set_active_strip([w EXCEPT !.app.active_mix_index = index], w.app.active_strip_index)

write_active_fader(w, fails) ==
    write_channel_fader(w, w.app.active_mix_index, w.app.active_strip_index, fails)

\* App::run before its loop (BatonApp::new in the GUI): a mixer-state file that
\* can be opened is loaded and written to the device.
startup(w, fails) ==
    IF w.env.config.present
    THEN LET loaded == load_config(w, w.env.config)
         IN  IF loaded.app.aborted THEN loaded ELSE write_state(loaded, fails)
    ELSE w

\* strip.set_fader(value) on strip `index` of mix `mix`, the call recorded.
strip_set_fader(w, mix, index, value) ==
    [w EXCEPT !.ps.mixes[mix] = SetStripNth(@, index, set_fader(StripNth(@, index), value)),
              !.obs.fader_calls = Append(@, [mix |-> mix, strip |-> index, value |-> value])]

increment_fader(w, delta, fails) ==
    LET mix == w.app.active_mix_index
        index == w.app.active_strip_index
        current == StripNth(w.ps.mixes[mix], index).fader
    IN  write_active_fader(strip_set_fader(w, mix, index, FAdd(current, delta)), fails)

\* App::increment_balance: channel_strips[active_strip_index] panics on the
\* index of the bus strip.
increment_balance(w, delta, fails) ==
    LET mix == w.app.active_mix_index
        index == w.app.active_strip_index
    IN  IF index >= NumChannels THEN panic(w)
        ELSE write_active_fader(
                 [w EXCEPT !.ps.mixes[mix].channel_strips[index].balance =
                     FClamp(FAdd(@, delta), BalanceMin, BalanceMax)], fails)

\* App::center_balance
center_balance(w, fails) ==
    LET mix == w.app.active_mix_index
        index == w.app.active_strip_index
    IN  IF index >= NumChannels THEN panic(w)
        ELSE write_active_fader(
                 [w EXCEPT !.ps.mixes[mix].channel_strips[index].balance = 0], fails)

toggle_main_mute(w, fails) == set_main_mute(w, ~w.ps.main_mute, fails)

toggle_mute(w, fails) ==
    LET mix == w.app.active_mix_index
        index == w.app.active_strip_index
        strip == StripNth(w.ps.mixes[mix], index)
    IN  IF strip.kind \in {"Channel", "Bus"}
        THEN write_active_fader(
                 [w EXCEPT !.ps.mixes[mix] =
                     SetStripNth(@, index, [strip EXCEPT !.mute = ~strip.mute])], fails)
        ELSE toggle_main_mute(w, fails)

\* The file is created and written when it can be; the mapping is sorted either
\* way.
write_midi_mapping(w) ==
    LET sorted == sort_mappings(w.app.midi_mapping)
        saved == [w EXCEPT !.app.midi_mapping = sorted]
    IN  IF w.env.writable
        THEN [saved EXCEPT !.env.mapping_file = to_string_pretty(sorted),
                           !.obs.saves = @ + 1]
        ELSE saved

\* App::save_midi_mapping
save_midi_mapping(w) == write_midi_mapping([w EXCEPT !.obs.save_calls = @ + 1])

start_midi_learn(w, control) ==
    [w EXCEPT !.app.midi_learn_state =
                  start_learning(StripTarget(w.app.active_mix_index,
                                             w.app.active_strip_index, control)),
              !.obs.learning_since = w.env.now]

cancel_and_save(w) ==
    IF w.app.midi_learn_state.learning
    THEN save_midi_mapping([w EXCEPT !.app.midi_learn_state = Inactive,
                                     !.obs.cancelled = TRUE])
    ELSE w

\* KeyCode::Esc
cancel_midi_learn(w) ==
    IF w.app.midi_learn_state.learning
    THEN [w EXCEPT !.app.midi_learn_state = Inactive, !.obs.cancelled = TRUE]
    ELSE w

\* value >= 63.0 of an f64.
FGe63(value) == value # NaN /\ value >= 630

set_mute(w, target, mute) ==
    [w EXCEPT !.ps.mixes[target.mix_index] =
        SetStripNth(@, target.strip_index,
                    [StripNth(@, target.strip_index) EXCEPT !.mute = mute])]

set_balance(w, target, value) ==
    [w EXCEPT !.ps.mixes[target.mix_index] =
        SetStripNth(@, target.strip_index,
                    [StripNth(@, target.strip_index) EXCEPT
                        !.balance = FClamp(value, BalanceMin, BalanceMax)])]

\* App::handle_strip_control
handle_strip_control(w, target, value, fails) ==
    LET strip == StripNth(w.ps.mixes[target.mix_index], target.strip_index)
    IN  CASE target.control = "Fader" ->
                write_channel_fader(
                    strip_set_fader(w, target.mix_index, target.strip_index, value),
                    target.mix_index, target.strip_index, fails)
          [] target.control = "Balance" ->
                write_channel_fader(set_balance(w, target, value),
                                    target.mix_index, target.strip_index, fails)
          [] target.control = "Mute" ->
                write_state(IF FGe63(value) THEN set_mute(w, target, ~strip.mute) ELSE w,
                            fails)
          [] target.control = "Solo" ->
                IF FGe63(value)
                THEN write_state([w EXCEPT !.ps.mixes[target.mix_index] =
                                      toggle_solo(@, target.strip_index)], fails)
                ELSE w

\* ((value as f64 / 127.0) * steps) as usize
Scale(value, steps) == (value * steps) \div 127

handle_global_control_from_63(w, control, value, fails) ==
    CASE control = "PhantomPower" ->
            IF value >= 63 THEN set_phantom_power(w, ~w.ps.phantom_power, fails) ELSE w
      [] control = "Line1_2" ->
            IF value >= 63 THEN set_1_2_line(w, ~w.ps.in_1_2_line, fails) ELSE w
      [] control = "MainMute" ->
            IF value >= 63 THEN toggle_main_mute(w, fails) ELSE w
      [] control = "MainMono" ->
            IF value >= 63 THEN set_main_mono(w, ~w.ps.main_mono, fails) ELSE w
      [] control = "ActiveMixSelect" ->
            set_active_mix(w, IF Scale(value, 8) < 8 THEN Scale(value, 8) ELSE 8)
      [] control = "ActiveStripSelect" ->
            set_active_strip(w, Scale(value, 10))

\* Switches that recorded the value they sent in the cached flag.
handle_global_control_recording(w, control, value, fails) ==
    CASE control = "PhantomPower" ->
            IF value > 63
            THEN [set_phantom_power(w, ~w.ps.phantom_power, fails) EXCEPT
                     !.ps.phantom_power = ~@]
            ELSE w
      [] control = "Line1_2" ->
            IF value > 63
            THEN [set_1_2_line(w, ~w.ps.in_1_2_line, fails) EXCEPT !.ps.in_1_2_line = ~@]
            ELSE w
      [] control = "MainMute" ->
            IF value > 63
            THEN [set_main_mute(w, ~w.ps.main_mute, fails) EXCEPT !.ps.main_mute = ~@]
            ELSE w
      [] control = "MainMono" ->
            IF value > 63
            THEN [set_main_mono(w, ~w.ps.main_mono, fails) EXCEPT !.ps.main_mono = ~@]
            ELSE w
      [] control = "ActiveMixSelect" ->
            set_active_mix(w, IF Scale(value, 8) < 8 THEN Scale(value, 8) ELSE 8)
      [] control = "ActiveStripSelect" ->
            set_active_strip(w, Scale(value, 10))

\* App::handle_global_control
handle_global_control(w, control, value, fails) ==
    CASE control = "PhantomPower" ->
            IF value > 63 THEN set_phantom_power(w, ~w.ps.phantom_power, fails) ELSE w
      [] control = "Line1_2" ->
            IF value > 63 THEN set_1_2_line(w, ~w.ps.in_1_2_line, fails) ELSE w
      [] control = "MainMute" ->
            IF value > 63 THEN toggle_main_mute(w, fails) ELSE w
      [] control = "MainMono" ->
            IF value > 63 THEN set_main_mono(w, ~w.ps.main_mono, fails) ELSE w
      [] control = "ActiveMixSelect" ->
            set_active_mix(w, IF Scale(value, 8) < 8 THEN Scale(value, 8) ELSE 8)
      [] control = "ActiveStripSelect" ->
            set_active_strip(w, Scale(value, 10))

\* The range a learned entry gets.
learn_range(learn_state) ==
    default_range_for_control(IF learn_state.target.kind = "Strip"
                              THEN learn_state.target.control ELSE "Fader")

\* A learn that also dispatched the Control-Change it learned from.
tui_message_learn_and_dispatch(w, msg, fails) ==
    LET midi == MidiControl(msg.channel, msg.controller)
        result == learn_mapping(w.app.midi_mapping, w.app.midi_learn_state, midi,
                                learn_range(w.app.midi_learn_state))
        learned == IF w.app.midi_learn_state.learning
                   THEN save_midi_mapping([w EXCEPT !.app.midi_mapping = result.mappings,
                                                    !.app.midi_learn_state = Inactive])
                   ELSE w
        target == get_target(learned.app.midi_mapping, midi)
        transformed_value == transform_value(learned.app.midi_mapping, midi, msg.value)
    IN  IF target = None THEN learned
        ELSE IF target[1].kind = "Strip"
             THEN handle_strip_control(learned, target[1], transformed_value, fails)
             ELSE handle_global_control(learned, target[1].control, msg.value, fails)

\* One Control-Change of App::process_midi_messages.
tui_message(w, msg, fails) ==
    LET midi == MidiControl(msg.channel, msg.controller)
        result == learn_mapping(w.app.midi_mapping, w.app.midi_learn_state, midi,
                                learn_range(w.app.midi_learn_state))
        target == get_target(w.app.midi_mapping, midi)
        transformed_value == transform_value(w.app.midi_mapping, midi, msg.value)
    IN  IF w.app.midi_learn_state.learning
        THEN save_midi_mapping([w EXCEPT !.app.midi_mapping = result.mappings,
                                         !.app.midi_learn_state = Inactive])
        ELSE IF target = None THEN w
        ELSE IF target[1].kind = "Strip"
             THEN handle_strip_control(w, target[1], transformed_value, fails)
             ELSE handle_global_control(w, target[1].control, msg.value, fails)

\* Where the worker's events are followed, the messages the loop of
\* process_midi_messages is run for are kept, from the start of the session.
Processed(w, msg) ==
    IF w.env.events = {} THEN w ELSE [w EXCEPT !.obs.processed = Append(@, msg)]

RECURSIVE tui_messages(_, _, _)
tui_messages(w, messages, fails) ==
    IF messages = << >> THEN w
    ELSE tui_messages(tui_message(Processed(w, Head(messages)), Head(messages), fails),
                      Tail(messages), fails)

\* App::process_midi_messages: the queue is drained, then the messages are
\* handled in order.
process_midi_messages(w, fails) ==
    IF w.app.midi_input
    THEN tui_messages([w EXCEPT !.env.queue = << >>], w.env.queue, fails)
    ELSE w

\* App::on_tick
on_tick(w, ok, fails) == process_midi_messages(poll_state(w, ok), fails)

-----------------------------------------------------------------------------
(* gui_main.rs: the desktop GUI's frame *)

LearnTimeout == 5
\* The largest data byte of a MIDI message.
MaxMidiValue == 127
DragMin == -500
DragMax == 100

\* BatonApp::save_midi_mapping: nothing without a configuration directory.
gui_save_midi_mapping(w) ==
    IF w.app.config_dir
    THEN write_midi_mapping([w EXCEPT !.obs.save_calls = @ + 1])
    ELSE [w EXCEPT !.obs.save_calls = @ + 1]

\* BatonApp::handle_strip_control: Mute and Solo look at the raw byte.
gui_handle_strip_control(w, target, value, raw_value, fails) ==
    LET strip == StripNth(w.ps.mixes[target.mix_index], target.strip_index)
    IN  CASE target.control = "Fader" ->
                write_channel_fader(
                    strip_set_fader(w, target.mix_index, target.strip_index, value),
                    target.mix_index, target.strip_index, fails)
          [] target.control = "Balance" ->
                write_channel_fader(set_balance(w, target, value),
                                    target.mix_index, target.strip_index, fails)
          [] target.control = "Mute" ->
                IF raw_value >= 63
                THEN write_state(set_mute(w, target, ~strip.mute), fails)
                ELSE w
          [] target.control = "Solo" ->
                IF raw_value >= 63
                THEN write_state([w EXCEPT !.ps.mixes[target.mix_index] =
                                      toggle_solo(@, target.strip_index)], fails)
                ELSE w

\* BatonApp::handle_global_control: the two selectors set the index as it is.
gui_handle_global_control(w, control, value, fails) ==
    CASE control = "ActiveMixSelect" ->
            [w EXCEPT !.app.active_mix_index =
                IF Scale(value, 8) < 8 THEN Scale(value, 8) ELSE 8]
      [] control = "ActiveStripSelect" ->
            [w EXCEPT !.app.active_strip_index = Scale(value, 10)]
      [] OTHER -> handle_global_control(w, control, value, fails)

\* One Control-Change of BatonApp::process_midi_messages.
gui_message(w, msg, fails) ==
    LET midi == MidiControl(msg.channel, msg.controller)
        result == learn_mapping(w.app.midi_mapping, w.app.midi_learn_state, midi,
                                learn_range(w.app.midi_learn_state))
        target == get_target(w.app.midi_mapping, midi)
        transformed_value == transform_value(w.app.midi_mapping, midi, msg.value)
    IN  IF w.app.midi_learn_state.learning
        THEN [w EXCEPT !.app.midi_mapping = result.mappings,
                       !.app.midi_learn_state = Inactive,
                       !.app.midi_learn_start_time = None,
                       !.obs.should_save = TRUE]
        ELSE IF target = None THEN w
        ELSE IF target[1].kind = "Strip"
             THEN gui_handle_strip_control(w, target[1], transformed_value, msg.value, fails)
             ELSE gui_handle_global_control(w, target[1].control, msg.value, fails)

RECURSIVE gui_messages(_, _, _)
gui_messages(w, messages, fails) ==
    IF messages = << >> THEN w
    ELSE gui_messages(gui_message(w, Head(messages), fails), Tail(messages), fails)

\* BatonApp::process_midi_messages: the mapping is saved once, after the batch.
gui_process_midi_messages(w, fails) ==
    IF w.app.midi_input
    THEN LET done == gui_messages([w EXCEPT !.env.queue = << >>], w.env.queue, fails)
         IN  IF done.obs.should_save THEN gui_save_midi_mapping(done) ELSE done
    ELSE w

check_no_timeout(w) == w

\* update: the learn timeout, checked in every frame.
check_learn_timeout(w) ==
    IF /\ w.app.midi_learn_state.learning
       /\ w.app.midi_learn_start_time # None
       /\ w.env.now - w.app.midi_learn_start_time[1] >= LearnTimeout
    THEN [w EXCEPT !.app.midi_learn_state = Inactive,
                   !.app.midi_learn_start_time = None,
                   !.obs.timed_out = TRUE]
    ELSE w

\* update: the strip action of the frame.  A drag moves the fader by
\* input.value within [-50, +10]; a click on M flips the strip's mute and
\* writes the strip; a click on S, which only channel strips have, toggles the
\* solo and writes the state; a right click on a control starts learning.
strip_action(w, input, fails) ==
    LET mix == w.app.active_mix_index
        fader_value == StripNth(w.ps.mixes[mix], input.strip).fader
    IN  CASE input.kind = "drag" ->
                write_channel_fader(
                    strip_set_fader(w, mix, input.strip,
                                    FClamp(FAdd(fader_value, input.value), DragMin, DragMax)),
                    mix, input.strip, fails)
          [] input.kind = "mute" ->
                write_channel_fader(
                    set_mute(w, StripTarget(mix, input.strip, "Mute"),
                             ~StripNth(w.ps.mixes[mix], input.strip).mute),
                    mix, input.strip, fails)
          [] input.kind = "solo" ->
                write_state([w EXCEPT !.ps.mixes[mix] = toggle_solo(@, input.strip)], fails)
          [] input.kind = "learn" ->
                [w EXCEPT !.app.midi_learn_state =
                              start_learning(StripTarget(mix, input.strip, input.control)),
                          !.app.midi_learn_start_time = Some(w.env.now),
                          !.obs.learning_since = w.env.now]
          [] OTHER -> w

\* BatonApp::update: the timeout check; when a tick is due, the poll and the
\* MIDI messages; then the frame's strip action.
update(w, input, ok, fails) ==
    LET checked == check_learn_timeout([w EXCEPT !.obs.input = input])
        ticked == IF input.due
                  THEN gui_process_midi_messages(poll_state(checked, ok), fails)
                  ELSE checked
    IN  strip_action(ticked, input, fails)

-----------------------------------------------------------------------------
(* main.rs, continued *)

clear_clip_indicators(w) ==
    [w EXCEPT !.ps.channel_meters =
                  [i \in DOMAIN @ |-> [@[i] EXCEPT !.clip = FALSE, !.max = NegInf]],
              !.ps.bus_meters =
                  [i \in DOMAIN @ |-> [@[i] EXCEPT !.clip = FALSE, !.max = NegInf]]]

\* A solo key that wrote the active strip only.
tui_toggle_solo_one_strip(w, fails) ==
    LET mix == w.app.active_mix_index
        index == w.app.active_strip_index
    IN  write_active_fader([w EXCEPT !.ps.mixes[mix] = toggle_solo(@, index),
                                     !.obs.solo_run = NoRun], fails)

\* App::toggle_solo
tui_toggle_solo(w, fails) ==
    LET mix == w.app.active_mix_index
        index == w.app.active_strip_index
        run == w.obs.solo_run
    IN  write_state([w EXCEPT !.ps.mixes[mix] = toggle_solo(@, index),
                              !.obs.solo_run =
                                  IF run.count = 1 /\ run.mix = mix /\ run.index = index
                                  THEN [run EXCEPT !.count = 2]
                                  ELSE [count |-> 1, mix |-> mix, index |-> index,
                                        strips |-> w.ps.mixes[mix].channel_strips]],
                    fails)

tui_toggle_bypass(w, fails) ==
    LET flipped == [w EXCEPT !.app.bypass = ~@]
    IN  IF flipped.app.bypass THEN bypass_mixer(flipped, fails) ELSE write_state(flipped, fails)


\* App::run after its event loop: the state file is created and written, each
\* step unwrapped, then the mapping is saved.  BatonApp::on_exit: the state
\* file is written when there is a configuration directory and the file can be
\* created, then the mapping is saved.
exit(w) ==
    LET written == [w EXCEPT !.env.config = state_to_string_pretty(w.ps),
                             !.obs.saved = Some(w.ps)]
    IN  IF w.app.frontend = "tui"
        THEN IF w.env.writable THEN save_midi_mapping(written) ELSE panic(w)
        ELSE gui_save_midi_mapping(IF w.app.config_dir /\ w.env.writable THEN written ELSE w)

-----------------------------------------------------------------------------
(* Actions of the terminal UI *)

\* The meters at the borders of the frame's five groups read just above the
\* clip threshold on one side of the border and just below it on the other, or
\* the first meter reads nothing; the others read -6 dB.
Signals ==
    {[above |-> {7, 17, 35}, below |-> {8, 18, 36}, zero |-> {}, rest |-> 16384],
     [above |-> {8, 18, 36, 53}, below |-> {7, 17, 35}, zero |-> {}, rest |-> 16384],
     [above |-> {}, below |-> {}, zero |-> {0}, rest |-> 16384]}

\* The seconds looked at: the start, the last before the learn timeout and the
\* one it is reached at.
Instants == {0, LearnTimeout - 1, LearnTimeout}

\* The steps of the fader keys looked at, in tenths: 10 dB either way (Control).
FaderDeltas == {-100, 100}

\* A drag of the first strip's fader by 10 dB either way.
UiDrags ==
    {[kind |-> "drag", strip |-> 0, control |-> "None", value |-> v, due |-> d] :
        v \in {-100, 100}, d \in BOOLEAN}

\* A click on the M button of the bus strip or on the S button of the first
\* strip.
UiClicks ==
    {[kind |-> "mute", strip |-> BusIndex, control |-> "None", value |-> 0, due |-> FALSE],
     [kind |-> "solo", strip |-> 0, control |-> "None", value |-> 0, due |-> FALSE]}

\* A right click on one of `controls` of the first strip.
UiLearns(controls) ==
    {[kind |-> "learn", strip |-> 0, control |-> c, value |-> 0, due |-> d] :
        c \in controls, d \in BOOLEAN}

\* The sends of a handler that fail: none on a reliable transport, at most one
\* of the positions looked at on a lossy one.
Fails == IF env.lossy THEN FailSets \cup {{k} : k \in env.fail_at} ELSE {{}}

\* The front-end is in its event loop.
\* The front-end has started and has not panicked.
Running == obs.last_op \notin {"new", "exit"} /\ ~app.aborted

Startup ==
    /\ obs.last_op = "new"
    /\ \E fails \in Fails : Becomes(startup(Begin(World, "startup"), fails))

KeyMix ==
    /\ Running
    /\ app.frontend = "tui"
    /\ \E index \in MixInputs : Becomes(set_active_mix(Begin(World, "set_active_mix"), index))

\* Left or Right, pressed until the active strip is `index`.
KeyStrip ==
    /\ Running
    /\ app.frontend = "tui"
    /\ \E index \in StripInputs :
          Becomes(set_active_strip(Begin(World, "set_active_strip"), index))

KeyMute ==
    /\ Running
    /\ app.frontend = "tui"
    /\ \E fails \in Fails : Becomes(toggle_mute(Begin(World, "toggle_mute"), fails))

KeyClear ==
    /\ Running
    /\ app.frontend = "tui"
    /\ Becomes(clear_clip_indicators(Begin(World, "clear_clip")))

\* The sends of a tick that fail: with no message queued it sends nothing.
QueueFails == IF env.queue = << >> THEN {{}} ELSE Fails

\* The state-request exchange may fail on a lossy transport.
PollOutcomes == IF env.lossy THEN BOOLEAN ELSE {TRUE}

\* The tick of the event loop, the device's meters reading what they read before.
Tick ==
    /\ Running
    /\ env.exchanges < env.horizon
    /\ app.frontend = "tui"
    /\ \E ok \in PollOutcomes, fails \in QueueFails :
          Becomes(on_tick(Begin(World, "on_tick"), ok, fails))

\* The tick of the event loop, the device's meters now reading `signal`.
TickSignal ==
    /\ Running
    /\ env.exchanges < env.horizon
    /\ app.frontend = "tui"
    /\ \E signal \in Signals, ok \in PollOutcomes, fails \in QueueFails :
          Becomes(on_tick([Begin(World, "on_tick") EXCEPT !.env.signal = signal], ok, fails))

\* The MIDI worker queues a Control-Change the controller sends.
Arrive ==
    /\ Running
    /\ Len(env.queue) < MaxQueue
    /\ \E msg \in env.controller :
          /\ env' = [env EXCEPT !.queue = Append(@, msg)]
          /\ UNCHANGED <<ps, app, device, obs>>

\* Time passes, to the next instant looked at.
Advance ==
    /\ Running
    /\ \E t \in Instants :
          /\ t > env.now
          /\ env' = [env EXCEPT !.now = t]
          /\ UNCHANGED <<ps, app, device, obs>>

\* Up or Down, plain, with Shift or with Control.
KeyFader ==
    /\ Running
    /\ app.frontend = "tui"
    /\ \E delta \in FaderDeltas, fails \in Fails :
          Becomes(increment_fader(
                      [Begin(World, "increment_fader") EXCEPT !.obs.input.value = delta],
                      delta, fails))

\* Shift+F, Shift+B, Shift+M or Shift+S.
KeyLearn ==
    /\ Running
    /\ app.frontend = "tui"
    /\ \E control \in env.learnable :
          Becomes(start_midi_learn(Begin(World, "start_midi_learn"), control))

KeyEsc ==
    /\ Running
    /\ app.frontend = "tui"
    /\ Becomes(cancel_midi_learn(Begin(World, "esc")))

\* A frame of the GUI in which nothing is clicked; a tick may be due.
Update ==
    /\ Running
    /\ app.frontend = "gui"
    /\ \E due \in BOOLEAN, ok \in PollOutcomes, fails \in QueueFails :
          /\ due => env.exchanges < env.horizon
          /\ Becomes(update(Begin(World, "update"), [NoInput EXCEPT !.due = due], ok, fails))

\* A frame of the GUI in which the user drags a fader or right-clicks a
\* control, and a tick may be due.
UpdateAction ==
    /\ Running
    /\ app.frontend = "gui"
    /\ \E input \in env.ui, ok \in PollOutcomes, fails \in Fails :
          /\ input.due => env.exchanges < env.horizon
          /\ Becomes(update(Begin(World, "update"), input, ok, fails))

\* A call of MidiMapping::transform_value on the mapping in use; one call is
\* followed.
TransformValue ==
    /\ Running
    /\ ~obs.transform.called
    /\ \E midi \in env.controls, midi_value \in 0 .. MaxMidiValue :
          Becomes([Begin(World, "transform_value") EXCEPT
                      !.obs.transform =
                          [called |-> TRUE, midi |-> midi, midi_value |-> midi_value,
                           result |-> transform_value(app.midi_mapping, midi, midi_value)]])

KeySolo ==
    /\ Running
    /\ app.frontend = "tui"
    /\ \E fails \in Fails : Becomes(tui_toggle_solo(Begin(World, "toggle_solo"), fails))

KeyBypass ==
    /\ Running
    /\ app.frontend = "tui"
    /\ \E fails \in Fails : Becomes(tui_toggle_bypass(Begin(World, "toggle_bypass"), fails))

\* 'q' or the window is closed: the front-end leaves its event loop.
Exit ==
    /\ Running
    /\ Becomes(exit(Begin(World, "exit")))

\* A call of MidiMapping::remove_mapping on the mapping in use.
RemoveMapping ==
    /\ Running
    /\ \E msg \in env.controller :
          Becomes([Begin(World, "remove_mapping") EXCEPT
                      !.app.midi_mapping = remove_mapping(@, MidiControl(msg.channel, msg.controller)).mappings])

\* 'x' or 'v' with Control: the balance moves by 10 either way.
BalanceDeltas == {-100, 100}

KeyBalance ==
    /\ Running
    /\ app.frontend = "tui"
    /\ \E delta \in BalanceDeltas, fails \in Fails :
          Becomes(increment_balance(
                      [Begin(World, "increment_balance") EXCEPT !.obs.input.value = delta],
                      delta, fails))

\* 'c'
KeyCenter ==
    /\ Running
    /\ app.frontend = "tui"
    /\ \E fails \in Fails : Becomes(center_balance(Begin(World, "center_balance"), fails))

-----------------------------------------------------------------------------
(* Specification of the mixer: navigation, solo and bypass from the state      *)
(* after construction, no mixer-state file.                                    *)

Init ==
    /\ ps = PreSonusStudio1824c_new
    /\ app = App_new("tui", EnvInit(FALSE, ConfigAbsent))
    /\ device = DeviceInit
    /\ env = EnvInit(FALSE, ConfigAbsent)
    /\ obs = ObsInit

Next == Startup \/ KeyMix \/ KeyStrip \/ KeySolo \/ KeyBypass

Spec == Init /\ [][Next]_vars

-----------------------------------------------------------------------------
(* Specification of the state writer: mute and solo on the strips of the first *)
(* mix, started from a mixer-state file that sets the flags of its strip 0.    *)

WriteConfigs ==
    {ConfigAbsent} \cup
    {ConfigFile(<<0, 0>> :> [fader |-> -60, balance |-> -500, solo |-> s,
                              mute |-> m, mute_by_solo |-> b]) :
        s \in BOOLEAN, m \in BOOLEAN, b \in BOOLEAN}

InitWrite ==
    /\ ps = PreSonusStudio1824c_new
    /\ app = App_new("tui", EnvInit(FALSE, ConfigAbsent))
    /\ device = DeviceInit
    /\ env \in {EnvInit(FALSE, config) : config \in WriteConfigs}
    /\ obs = ObsInit

NextWrite == Startup \/ KeyStrip \/ KeyMute \/ KeySolo

SpecWrite == InitWrite /\ [][NextWrite]_vars

-----------------------------------------------------------------------------
(* Specification of the meters: ticks on a lossy transport while the readings  *)
(* change, and the clip indicators cleared.                                    *)

\* The state-request exchanges followed.
MaxPolls == 3

InitPoll ==
    /\ ps = PreSonusStudio1824c_new
    /\ app = App_new("tui", EnvInit(FALSE, ConfigAbsent))
    /\ device = DeviceInit
    /\ env = [EnvInit(TRUE, ConfigAbsent) EXCEPT !.horizon = MaxPolls]
    /\ obs = ObsInit

NextPoll == Startup \/ TickSignal \/ KeyClear \/ KeyMix

SpecPoll == InitPoll /\ [][NextPoll]_vars

-----------------------------------------------------------------------------
(* Specification of the poll counter: ticks on a lossy transport, past the    *)
(* counter's wrap.                                                             *)

\* The state-request exchanges followed.
MaxExchanges == 65540

InitCounter ==
    /\ ps = PreSonusStudio1824c_new
    /\ app = App_new("tui", EnvInit(FALSE, ConfigAbsent))
    /\ device = DeviceInit
    /\ env = [EnvInit(TRUE, ConfigAbsent) EXCEPT !.horizon = MaxExchanges]
    /\ obs = ObsInit

NextCounter == Startup \/ Tick

SpecCounter == InitCounter /\ [][NextCounter]_vars

-----------------------------------------------------------------------------
(* Specification of the faders: the fader keys of the terminal UI, the fader   *)
(* drag of the GUI and Control-Changes dispatched by a mapping, the default    *)
(* one or one read from a mapping file.                                        *)

\* The ticks followed.
MaxFaderTicks == 1

Message(channel, controller, value) ==
    [channel |-> channel, controller |-> controller, value |-> value]

\* A mapping file written by hand: three controllers on the first strip's
\* fader, one with the default range, one with a range of a single MIDI value,
\* one with no range.
FaderMappingFile ==
    to_string_pretty(<<
        MidiMappingEntry(MidiControl(0, 1), StripTarget(0, 0, "Fader"),
                         Some(ValueRange(0, 127, -960, 100, "Linear"))),
        MidiMappingEntry(MidiControl(0, 2), StripTarget(0, 0, "Fader"),
                         Some(ValueRange(64, 64, -960, 100, "Linear"))),
        MidiMappingEntry(MidiControl(0, 3), StripTarget(0, 0, "Fader"), None) >>)

FaderController == {Message(0, 1, 64), Message(0, 2, 64), Message(0, 3, 127)}

FaderEnvs ==
    {[EnvInit(FALSE, ConfigAbsent) EXCEPT !.horizon = MaxFaderTicks,
                                          !.controller = FaderController,
                                          !.ui = UiDrags,
                                          !.mapping_file = file] :
        file \in {MappingAbsent, FaderMappingFile}}

InitFader ==
    /\ ps = PreSonusStudio1824c_new
    /\ device = DeviceInit
    /\ env \in FaderEnvs
    /\ app \in {App_new(frontend, env) : frontend \in {"tui", "gui"}}
    /\ obs = ObsInit

NextFader == Startup \/ Arrive \/ Tick \/ KeyFader \/ Update \/ UpdateAction

SpecFader == InitFader /\ [][NextFader]_vars

-----------------------------------------------------------------------------
(* Specification of the learn mode: learning started by key (terminal UI) or   *)
(* by right click (GUI) and Control-Changes arriving, with and without a place *)
(* to write the mapping file to.                                               *)

\* The ticks followed.
MaxLearnTicks == 1

\* One controller the default mapping has an entry for, one it has none for.
LearnController == {Message(0, 1, 0), Message(3, 77, 0)}

LearnControls == {"Fader", "Balance", "Mute", "Solo"}

LearnEnvs ==
    {[EnvInit(FALSE, ConfigAbsent) EXCEPT !.horizon = MaxLearnTicks,
                                          !.controller = LearnController,
                                          !.learnable = LearnControls,
                                          !.ui = UiLearns(LearnControls),
                                          !.config_dir = dir,
                                          !.writable = writable] :
        dir \in BOOLEAN, writable \in BOOLEAN}

InitLearn ==
    /\ ps = PreSonusStudio1824c_new
    /\ device = DeviceInit
    /\ env \in LearnEnvs
    /\ app \in {App_new(frontend, env) : frontend \in {"tui", "gui"}}
    /\ app.frontend = "tui" => env.config_dir
    /\ ~env.config_dir => env.writable
    /\ obs = ObsInit

NextLearn == Startup \/ Arrive \/ Tick \/ KeyLearn \/ Update \/ UpdateAction

SpecLearn == InitLearn /\ [][NextLearn]_vars

-----------------------------------------------------------------------------
(* Specification of leaving the learn mode: learning of a fader started, Esc   *)
(* in the terminal UI, time passing, and a Control-Change arriving or not.     *)

\* The ticks followed.
MaxCancelTicks == 1

CancelEnvs ==
    {[EnvInit(FALSE, ConfigAbsent) EXCEPT !.horizon = MaxCancelTicks,
                                          !.controller = {Message(0, 1, 0)},
                                          !.learnable = {"Fader"},
                                          !.ui = UiLearns({"Fader"}),
                                          !.config_dir = dir] :
        dir \in BOOLEAN}

InitCancel ==
    /\ ps = PreSonusStudio1824c_new
    /\ device = DeviceInit
    /\ env \in CancelEnvs
    /\ app \in {App_new(frontend, env) : frontend \in {"tui", "gui"}}
    /\ app.frontend = "tui" => env.config_dir
    /\ obs = ObsInit

NextCancel ==
    Startup \/ Arrive \/ Advance \/ Tick \/ KeyLearn \/ KeyEsc \/ Update \/ UpdateAction

SpecCancel == InitCancel /\ [][NextCancel]_vars

-----------------------------------------------------------------------------
(* Specification of the global switches: Control-Changes mapped to phantom     *)
(* power, the 1/2 line switch, main mute and main mono arrive in both          *)
(* front-ends, on a transport on which a send or an exchange may fail, while   *)
(* the first mic meter and the last bus meter read above the clip threshold.   *)

\* The ticks followed.
MaxSwitchTicks == 2

SwitchMappingFile ==
    to_string_pretty(<<
        MidiMappingEntry(MidiControl(0, 102), GlobalTarget("PhantomPower"), None),
        MidiMappingEntry(MidiControl(0, 103), GlobalTarget("Line1_2"), None),
        MidiMappingEntry(MidiControl(0, 104), GlobalTarget("MainMute"), None),
        MidiMappingEntry(MidiControl(0, 105), GlobalTarget("MainMono"), None) >>)

\* A controller with two pads: at the threshold and just above it on phantom
\* power, at the threshold and at full scale on main mute, or above the
\* threshold on the line switch and on main mono.
SwitchControllers ==
    {{Message(0, 102, 63), Message(0, 102, 64)},
     {Message(0, 104, 63), Message(0, 104, 127)},
     {Message(0, 103, 64), Message(0, 105, 127)}}

SwitchEnvs ==
    {[EnvInit(TRUE, ConfigAbsent) EXCEPT
        !.horizon = MaxSwitchTicks,
        !.controller = controller,
        !.mapping_file = SwitchMappingFile,
        !.signal = [above |-> {0, 53}, below |-> {}, zero |-> {}, rest |-> 16384]] :
      controller \in SwitchControllers}

InitSwitch ==
    /\ ps = PreSonusStudio1824c_new
    /\ device = DeviceInit
    /\ env \in SwitchEnvs
    /\ app \in {App_new(frontend, env) : frontend \in {"tui", "gui"}}
    /\ obs = ObsInit

NextSwitch == Startup \/ Arrive \/ Tick \/ Update

SpecSwitch == InitSwitch /\ [][NextSwitch]_vars

-----------------------------------------------------------------------------
(* Specification of the bus strips: mute and solo by key and by click in the   *)
(* first mix, whose bus strip is the main strip, and by Control-Change on the  *)
(* first channel strip and the bus strip of the last mix; started with or      *)
(* without a mixer-state file that has all flags of the main strip set.        *)

\* The ticks followed.
MaxBusTicks == 1

BusConfigs ==
    {ConfigAbsent,
     ConfigFile(<<0, BusIndex>> :> [fader |-> -60, balance |-> 0, solo |-> TRUE,
                                    mute |-> TRUE, mute_by_solo |-> TRUE])}

BusMappingFile ==
    to_string_pretty(<<
        MidiMappingEntry(MidiControl(0, 20), StripTarget(NumMixes - 1, 0, "Solo"), None),
        MidiMappingEntry(MidiControl(0, 21), StripTarget(NumMixes - 1, BusIndex, "Mute"), None),
        MidiMappingEntry(MidiControl(0, 22), StripTarget(NumMixes - 1, BusIndex, "Solo"), None) >>)

\* A controller has one of the three pads.
BusControllers == {{Message(0, 20, 127)}, {Message(0, 21, 127)}, {Message(0, 22, 127)}}

BusEnvs ==
    {[EnvInit(FALSE, config) EXCEPT !.horizon = MaxBusTicks,
                                    !.controller = controller,
                                    !.mapping_file = BusMappingFile,
                                    !.ui = UiClicks] :
        config \in BusConfigs, controller \in BusControllers}

InitBus ==
    /\ ps = PreSonusStudio1824c_new
    /\ device = DeviceInit
    /\ env \in BusEnvs
    /\ app \in {App_new(frontend, env) : frontend \in {"tui", "gui"}}
    /\ obs = ObsInit

NextBus == Startup \/ KeyMute \/ KeySolo \/ Arrive \/ Tick \/ Update \/ UpdateAction

SpecBus == InitBus /\ [][NextBus]_vars

-----------------------------------------------------------------------------
(* Specification of the mute dispatch: a pad mapped to the mute of the first   *)
(* strip, pressed lightly or firmly, in both front-ends.                       *)

\* The ticks followed.
MaxMuteTicks == 2

\* The entry learning a Mute leaves, and one written by hand with a range.
MuteMappingFile ==
    to_string_pretty(<<
        MidiMappingEntry(MidiControl(0, 20), StripTarget(0, 0, "Mute"), None),
        MidiMappingEntry(MidiControl(0, 24), StripTarget(0, 0, "Mute"),
                         Some(ValueRange(0, 127, 0, 10, "Linear"))) >>)

MuteControllers == {{Message(0, 20, 62)}, {Message(0, 20, 63)}, {Message(0, 24, 127)}}

MuteEnvs ==
    {[EnvInit(FALSE, ConfigAbsent) EXCEPT !.horizon = MaxMuteTicks,
                                          !.controller = controller,
                                          !.mapping_file = MuteMappingFile] :
        controller \in MuteControllers}

InitMute ==
    /\ ps = PreSonusStudio1824c_new
    /\ device = DeviceInit
    /\ env \in MuteEnvs
    /\ app \in {App_new(frontend, env) : frontend \in {"tui", "gui"}}
    /\ obs = ObsInit

NextMute == Startup \/ Arrive \/ Tick \/ Update

SpecMute == InitMute /\ [][NextMute]_vars

-----------------------------------------------------------------------------
(* Specification of the value transform: transform_value on every data byte,   *)
(* for a control with a range, a control without one and a control with no     *)
(* entry, the mapping being the default one or that of a mapping file with a   *)
(* range of each curve.                                                        *)

TransformRanges ==
    {ValueRange(midi[1], midi[2], target[1], target[2], curve) :
        midi \in {<<0, 127>>, <<0, 100>>, <<20, 30>>},
        target \in {<<-960, 100>>, <<0, 1000>>, <<1000, -1000>>},
        curve \in {"Linear", "Exponential", "Logarithmic"}}

TransformMappingFile(range) ==
    to_string_pretty(<<
        MidiMappingEntry(MidiControl(0, 1), StripTarget(0, 0, "Fader"), Some(range)),
        MidiMappingEntry(MidiControl(0, 2), StripTarget(0, 0, "Mute"), None) >>)

TransformEnvs ==
    {[EnvInit(FALSE, ConfigAbsent) EXCEPT
          !.controls = {MidiControl(0, 1), MidiControl(0, 2), MidiControl(5, 99)},
          !.mapping_file = file] :
        file \in {MappingAbsent, MappingMalformed, MappingUnreadable}
                 \cup {TransformMappingFile(range) : range \in TransformRanges}}

InitTransform ==
    /\ ps = PreSonusStudio1824c_new
    /\ device = DeviceInit
    /\ env \in TransformEnvs
    /\ app \in {App_new(frontend, env) : frontend \in {"tui", "gui"}}
    /\ obs = ObsInit

NextTransform == Startup \/ TransformValue

SpecTransform == InitTransform /\ [][NextTransform]_vars

-----------------------------------------------------------------------------
(* Specification of the mapping file's round trip: a mapping of up to          *)
(* MaxTripLen entries, or the default mapping, is sorted, serialized and read   *)
(* back.  The entries have targets of both kinds, with and without a range.    *)

MaxTripLen == 2

TripEntries ==
    {MidiMappingEntry(midi, target, range) :
        midi \in {MidiControl(0, 1), MidiControl(15, 127)},
        target \in {StripTarget(0, 0, "Fader"), StripTarget(8, 36, "Solo"),
                    GlobalTarget("PhantomPower")},
        range \in {None,
                   Some(ValueRange(0, 127, -960, 100, "Linear")),
                   Some(ValueRange(20, 30, 1005, -5, "Exponential")),
                   Some(ValueRange(0, 100, 0, 10, "Logarithmic"))}}

TripMappings ==
    {create_default}
        \cup UNION {[1 .. n -> TripEntries] : n \in 0 .. MaxTripLen}

\* A mapping is sorted and serialized, as save_midi_mapping does, and the text
\* is deserialized, as the next start does; one round trip is followed.
RoundTrip ==
    /\ Running
    /\ ~obs.roundtrip.called
    /\ \E mapping \in TripMappings :
          LET sorted == sort_mappings(mapping)
          IN  Becomes([Begin(World, "roundtrip") EXCEPT
                          !.obs.roundtrip =
                              [called |-> TRUE, mapping |-> sorted,
                               back |-> mapping_from_str(to_string_pretty(sorted))]])

InitTrip ==
    /\ ps = PreSonusStudio1824c_new
    /\ device = DeviceInit
    /\ env = EnvInit(FALSE, ConfigAbsent)
    /\ app \in {App_new(frontend, env) : frontend \in {"tui", "gui"}}
    /\ obs = ObsInit

NextTrip == Startup \/ RoundTrip

SpecTrip == InitTrip /\ [][NextTrip]_vars

-----------------------------------------------------------------------------
(* Specification of the mixer-state file: the front-end starts on a file that  *)
(* an earlier session has written from a model it held, or on a file written   *)
(* by hand, with a model that is fresh or not; solo by key and by click         *)
(* follows.  obs.saved is the model the file was serialized from.              *)

\* Strip `index` of mix `mix` with the persisted fields `fields`.
WithStrip(state, mix, index, fields) ==
    [state EXCEPT !.mixes[mix] =
        SetStripNth(@, index,
            [StripNth(@, index) EXCEPT
                !.fader = fields.fader, !.balance = fields.balance, !.solo = fields.solo,
                !.mute = fields.mute, !.mute_by_solo = fields.mute_by_solo])]

\* A session's work: a channel and a mix renamed, faders and balances moved on
\* the first strip of the first mix and the last strip of the last, mutes set
\* on a channel strip and on a bus strip.
LoadEdited ==
    LET renamed == [PreSonusStudio1824c_new EXCEPT !.channel_names[0] = "Kick",
                                                   !.mixes[NumMixes - 1].name = "Cue"]
        first == WithStrip(renamed, 0, 0,
                     [fader |-> -605, balance |-> -500, solo |-> FALSE, mute |-> TRUE,
                      mute_by_solo |-> FALSE])
        last == WithStrip(first, NumMixes - 1, NumChannels - 1,
                     [fader |-> 100, balance |-> 1000, solo |-> FALSE, mute |-> FALSE,
                      mute_by_solo |-> FALSE])
    IN  WithStrip(last, NumMixes - 1, BusIndex,
            [fader |-> -960, balance |-> 0, solo |-> FALSE, mute |-> TRUE,
             mute_by_solo |-> FALSE])

\* The models a session can end with: untouched, edited, edited with the first
\* strip soloed, and edited with the balance of the main strip set, as a
\* Control-Change mapped to Balance of strip 36 sets it.
LoadSources ==
    {PreSonusStudio1824c_new,
     LoadEdited,
     [LoadEdited EXCEPT !.mixes[0] = toggle_solo(@, 0)],
     WithStrip(LoadEdited, 0, BusIndex,
         [fader |-> 0, balance |-> 250, solo |-> FALSE, mute |-> FALSE,
          mute_by_solo |-> FALSE])}

\* The models that receive a file: the one after construction, and for the
\* loader taken alone one that holds other values in the same places.
LoadReceivers ==
    {PreSonusStudio1824c_new,
     WithStrip([LoadEdited EXCEPT !.mixes[0] = toggle_solo(@, 1),
                                  !.channel_names[0] = "Snare"],
         0, BusIndex,
         [fader |-> -100, balance |-> -1000, solo |-> FALSE, mute |-> TRUE,
          mute_by_solo |-> FALSE])}

\* Files written by hand: no JSON, a document of 8 mixes, a document with 35
\* channel strips in each mix, a document with a fader that is null (what a
\* NaN fader is serialized as), and well-formed documents in which the first
\* strip of the first mix is soloed with no strip muted by solo, or is muted by
\* solo with no strip soloed.
LoadByHand ==
    {ConfigMalformed,
     [ConfigFile(<< >>) EXCEPT !.mixes = NumMixes - 1],
     [ConfigFile(<< >>) EXCEPT !.channel_strips = NumChannels - 1],
     ConfigFile(<<0, 0>> :> [fader |-> NaN, balance |-> 0, solo |-> FALSE,
                             mute |-> FALSE, mute_by_solo |-> FALSE]),
     ConfigFile(<<0, 0>> :> [fader |-> 0, balance |-> 0, solo |-> TRUE,
                             mute |-> FALSE, mute_by_solo |-> FALSE]),
     ConfigFile(<<0, 0>> :> [fader |-> 0, balance |-> 0, solo |-> FALSE,
                             mute |-> FALSE, mute_by_solo |-> TRUE])}

InitLoad ==
    /\ ps \in LoadReceivers
    /\ device = DeviceInit
    /\ \E frontend \in {"tui", "gui"} :
          /\ app = App_new(frontend, EnvInit(FALSE, ConfigAbsent))
          /\ \/ \E source \in LoadSources :
                   /\ env = [EnvInit(FALSE, state_to_string_pretty(source)) EXCEPT
                                 !.ui = UiClicks]
                   /\ obs = [ObsInit EXCEPT !.saved = Some(source)]
             \/ \E config \in LoadByHand :
                   /\ env = [EnvInit(FALSE, config) EXCEPT !.ui = UiClicks]
                   /\ obs = ObsInit

NextLoad == Startup \/ KeySolo \/ UpdateAction

SpecLoad == InitLoad /\ [][NextLoad]_vars

-----------------------------------------------------------------------------
(* Specification of the lossy transport: a mixer-state file loaded, then mute, *)
(* solo and bypass in the terminal UI, while one send of a handler may fail at *)
(* the start, in the middle or at the end of its sequence.                     *)

\* The sends that may fail besides the first: the bus command of the first
\* mix, and the last commands of bypass_mixer and of write_state.
LossyPositions ==
    {WriteStateBusPos(0), Len(bypass_commands), NumMixes * CommandsPerMix}

InitLossy ==
    /\ ps = PreSonusStudio1824c_new
    /\ app = App_new("tui", EnvInit(TRUE, ConfigAbsent))
    /\ device = DeviceInit
    /\ env = [EnvInit(TRUE, state_to_string_pretty(LoadEdited)) EXCEPT
                  !.fail_at = LossyPositions]
    /\ obs = ObsInit

NextLossy == Startup \/ KeyMute \/ KeySolo \/ KeyBypass

SpecLossy == InitLossy /\ [][NextLossy]_vars

-----------------------------------------------------------------------------
(* Specification of the pan laws: pan_rule called with either law on the first *)
(* strip of the first mix, its fader and its balance as a session left them.   *)

\* The faders looked at, in tenths: the ends of the strip's range, values
\* between them and the NaN a degenerate MIDI range leaves; the balances: the
\* ends of [-100, 100], the centre, the steps next to it and values between.
PanFaders == {StripMin, -605, 0, 55, StripMax, NaN}
PanBalances == {BalanceMin, -500, -250, -1, 0, 1, 250, 500, BalanceMax}
PanLaws == {"Simple", "Exponential"}

PanRule ==
    /\ Running
    /\ ~obs.pan.called
    /\ \E rule \in PanLaws :
          LET strip == ps.mixes[0].channel_strips[0]
              result == pan_rule(strip, rule)
          IN  Becomes([Begin(World, "pan_rule") EXCEPT
                          !.obs.pan = [called |-> TRUE, rule |-> rule,
                                       fader |-> strip.fader, balance |-> strip.balance,
                                       left |-> result.left, right |-> result.right]])

InitPan ==
    /\ ps \in {WithStrip(PreSonusStudio1824c_new, 0, 0,
                    [fader |-> f, balance |-> b, solo |-> FALSE, mute |-> FALSE,
                     mute_by_solo |-> FALSE]) : f \in PanFaders, b \in PanBalances}
    /\ app = App_new("tui", EnvInit(FALSE, ConfigAbsent))
    /\ device = DeviceInit
    /\ env = EnvInit(FALSE, ConfigAbsent)
    /\ obs = ObsInit

NextPan == Startup \/ PanRule

SpecPan == InitPan /\ [][NextPan]_vars

-----------------------------------------------------------------------------
(* Specification of the strip writer: the mute key of the terminal UI on the   *)
(* first and the last channel strip and on the bus strip of the first and of   *)
(* the last mix, after a session's mixer-state file was loaded.                *)

InitStrip ==
    /\ ps = PreSonusStudio1824c_new
    /\ app = App_new("tui", EnvInit(FALSE, ConfigAbsent))
    /\ device = DeviceInit
    /\ env = EnvInit(FALSE, state_to_string_pretty(LoadEdited))
    /\ obs = ObsInit

NextStrip == Startup \/ KeyMix \/ KeyStrip \/ KeyMute

SpecStrip == InitStrip /\ [][NextStrip]_vars

-----------------------------------------------------------------------------
(* Specification of the MIDI worker: sequencer events of several types arrive  *)
(* at the worker thread while the terminal UI ticks, the default mapping in    *)
(* use.                                                                        *)

\* The events the worker receives in a session, and the ticks followed.
MaxEvents == 3
MaxMidiTicks == 2

\* A sequencer event: its type and, for the types that carry them, channel,
\* parameter and value.
Event(type, channel, param, value) ==
    [type |-> type, channel |-> channel, param |-> param, value |-> value]

\* `ctrl_data.param as u8`, `ctrl_data.value as u8`: the low eight bits.
as_u8(n) == n % 256

\* A worker that forwarded events of every type.
run_midi_loop_every_type(queue, event) ==
    Append(queue, Message(event.channel, as_u8(event.param), as_u8(event.value)))

\* One turn of the loop of run_midi_loop on the channel `queue`: a Controller
\* event is sent on as a ControlChange, an event of another type is dropped.
\* The channel is std::sync::mpsc::channel(): send never blocks and there is
\* no capacity.
run_midi_loop(queue, event) ==
    IF event.type = "Controller"
    THEN Append(queue, Message(event.channel, as_u8(event.param), as_u8(event.value)))
    ELSE queue

\* A pad on phantom power, a fader whose controller number the sequencer
\* reports above 255, a control nothing is mapped to, a note and a pitch bend.
MidiEvents ==
    {Event("Controller", 0, 102, 127), Event("Controller", 0, 258, 64),
     Event("Controller", 1, 50, 0), Event("NoteOn", 0, 102, 127),
     Event("PitchBend", 0, 0, 64)}

\* The worker thread receives an event; it runs from App::new on, whatever
\* the core does.
WorkerEvent ==
    /\ Len(env.received) < MaxEvents
    /\ \E event \in env.events :
          /\ env' = [env EXCEPT !.received = Append(@, event),
                                !.queue = run_midi_loop(@, event)]
          /\ UNCHANGED <<ps, app, device, obs>>

InitMidi ==
    /\ ps = PreSonusStudio1824c_new
    /\ device = DeviceInit
    /\ env = [EnvInit(FALSE, ConfigAbsent) EXCEPT !.horizon = MaxMidiTicks,
                                                  !.events = MidiEvents]
    /\ app = App_new("tui", env)
    /\ obs = ObsInit

NextMidi == Startup \/ WorkerEvent \/ Tick

SpecMidi == InitMidi /\ [][NextMidi]_vars

\* A tick can happen, and the step a tick takes: it makes one state-request
\* exchange.
TickEnabled == Running /\ app.frontend = "tui" /\ env.exchanges < env.horizon
TickStep == env'.exchanges = env.exchanges + 1

\* main runs App::run after App::new, and the event loop of App::run calls
\* on_tick on every turn once the tick rate has elapsed, at the latest when its
\* poll for a key times out: a start and a tick that can happen do happen.
\* The second conjunct is WF_vars(Tick) written out, TickEnabled being
\* ENABLED <<Tick>>_vars.
SpecMidiFair ==
    /\ SpecMidi
    /\ WF_vars(Startup)
    /\ ([]<>(~TickEnabled) \/ []<><<TickStep>>_vars)

-----------------------------------------------------------------------------
(* Specification of the mapping's order: the front-end starts on a mapping     *)
(* file written by hand, of up to MaxSortLen entries in any order, two of them *)
(* of one key, and is left, which saves the mapping.                           *)

MaxSortLen == 3

SortEntries ==
    {MidiMappingEntry(MidiControl(0, 7), StripTarget(0, 0, "Mute"), None),
     MidiMappingEntry(MidiControl(1, 3), StripTarget(0, 1, "Mute"), None),
     MidiMappingEntry(MidiControl(1, 7), StripTarget(0, 2, "Solo"), None),
     MidiMappingEntry(MidiControl(2, 1), GlobalTarget("PhantomPower"), None),
     MidiMappingEntry(MidiControl(1, 3), StripTarget(8, 36, "Fader"),
                      Some(ValueRange(0, 127, -960, 100, "Linear")))}

SortMappings == UNION {[1 .. n -> SortEntries] : n \in 0 .. MaxSortLen}

InitSort ==
    /\ ps = PreSonusStudio1824c_new
    /\ device = DeviceInit
    /\ \E mapping \in SortMappings, dir \in BOOLEAN, writable \in BOOLEAN :
          env = [EnvInit(FALSE, ConfigAbsent) EXCEPT
                    !.mapping_file = to_string_pretty(mapping),
                    !.config_dir = dir, !.writable = writable]
    /\ app \in {App_new(frontend, env) : frontend \in {"tui", "gui"}}
    /\ app.frontend = "tui" => env.config_dir
    /\ obs = ObsInit

NextSort == Startup \/ Exit

SpecSort == InitSort /\ [][NextSort]_vars

-----------------------------------------------------------------------------
(* Specification of the mapping's keys: from the default mapping or a mapping  *)
(* file of distinct keys, learning is started, cancelled and completed by a    *)
(* Control-Change of a key the mapping has or has not, entries are removed,    *)
(* and the mapping is saved, which sorts it.                                   *)

\* The ticks followed.
MaxKeyTicks == 1

KeysController == {Message(0, 1, 0), Message(3, 77, 0)}

KeysMappingFile ==
    to_string_pretty(
        <<MidiMappingEntry(MidiControl(3, 77), StripTarget(0, 0, "Mute"), None),
          MidiMappingEntry(MidiControl(0, 1), StripTarget(0, 1, "Fader"),
                           Some(ValueRange(0, 127, -960, 100, "Linear")))>>)

InitKeys ==
    /\ ps = PreSonusStudio1824c_new
    /\ device = DeviceInit
    /\ \E file \in {MappingAbsent, KeysMappingFile} :
          env = [EnvInit(FALSE, ConfigAbsent) EXCEPT
                    !.horizon = MaxKeyTicks,
                    !.controller = KeysController,
                    !.learnable = {"Balance"},
                    !.ui = UiLearns({"Balance"}),
                    !.mapping_file = file]
    /\ app \in {App_new(frontend, env) : frontend \in {"tui", "gui"}}
    /\ obs = ObsInit

NextKeys ==
    Startup \/ Arrive \/ Tick \/ KeyLearn \/ KeyEsc \/ Update \/ UpdateAction \/ RemoveMapping

SpecKeys == InitKeys /\ [][NextKeys]_vars

-----------------------------------------------------------------------------
(* Specification of the balance keys: the terminal UI on the first mix, the    *)
(* active strip moved to a channel strip or to the bus strip, the balance      *)
(* moved by 10 either way and centred.                                         *)

InitBalance ==
    /\ ps = PreSonusStudio1824c_new
    /\ device = DeviceInit
    /\ env = EnvInit(FALSE, ConfigAbsent)
    /\ app = App_new("tui", env)
    /\ obs = ObsInit

NextBalance == Startup \/ KeyStrip \/ KeyBalance \/ KeyCenter

SpecBalance == InitBalance /\ [][NextBalance]_vars

-----------------------------------------------------------------------------
(* Specification of the active mix and strip: the terminal UI with a mapping   *)
(* file that maps two controllers to the selection of the active mix and of    *)
(* the active strip; mixes and strips are selected by key and by               *)
(* Control-Change, and learning of a fader is started.                         *)

\* The ticks followed.
MaxSelectTicks == 1

SelectMappingFile ==
    to_string_pretty(<<
        MidiMappingEntry(MidiControl(0, 20), GlobalTarget("ActiveMixSelect"), None),
        MidiMappingEntry(MidiControl(0, 21), GlobalTarget("ActiveStripSelect"), None) >>)

\* The mix selector at its middle and at full scale, the strip selector at
\* full scale.
SelectController == {Message(0, 20, 64), Message(0, 20, 127), Message(0, 21, 127)}

InitSelect ==
    /\ ps = PreSonusStudio1824c_new
    /\ device = DeviceInit
    /\ env = [EnvInit(FALSE, ConfigAbsent) EXCEPT
                 !.horizon = MaxSelectTicks,
                 !.controller = SelectController,
                 !.learnable = {"Fader"},
                 !.mapping_file = SelectMappingFile]
    /\ app = App_new("tui", env)
    /\ obs = ObsInit

NextSelect ==
    Startup \/ Arrive \/ Tick \/ KeyMix \/ KeyStrip \/ KeyLearn

SpecSelect == InitSelect /\ [][NextSelect]_vars

-----------------------------------------------------------------------------
(* Specification of the device following the model: both front-ends start on   *)
(* the file of an earlier session, which is loaded and written; then fader and *)
(* balance of the first strip are set by Control-Change through the default   *)
(* mapping, and strips are muted and soloed by key and by click.  No send      *)
(* fails.                                                                      *)

\* The ticks followed.
MaxSyncTicks == 1

SyncController == {Message(0, 1, 64), Message(0, 10, 127)}

InitSync ==
    /\ ps = PreSonusStudio1824c_new
    /\ device = DeviceInit
    /\ env = [EnvInit(FALSE, state_to_string_pretty(LoadEdited)) EXCEPT
                 !.horizon = MaxSyncTicks,
                 !.controller = SyncController,
                 !.ui = UiClicks]
    /\ app \in {App_new(frontend, env) : frontend \in {"tui", "gui"}}
    /\ obs = ObsInit

NextSync ==
    Startup \/ Arrive \/ Tick \/ KeyMute \/ KeySolo \/ Update \/ UpdateAction

SpecSync == InitSync /\ [][NextSync]_vars

-----------------------------------------------------------------------------
(* Properties of the mixer *)

AllSent == \A k \in 1 .. Len(obs.sent) : obs.sent[k].ok

\* C1: starting from a mix with no solo and no mute_by_solo, after any sequence
\* of toggle_solo(i), i in 0 ..= 36, either no channel strip of the mix is
\* soloed and none has mute_by_solo, or some channel strip is soloed and each
\* channel strip has mute_by_solo exactly when it is not soloed.
C1_SoloRule ==
    \A m \in Mixes :
        LET strips == ps.mixes[m].channel_strips
        IN  \/ /\ \A i \in Channels : ~strips[i].solo
               /\ \A i \in Channels : ~strips[i].mute_by_solo
            \/ /\ \E i \in Channels : strips[i].solo
               /\ \A i \in Channels : strips[i].mute_by_solo <=> ~strips[i].solo

\* Two strips of the last mix are soloed, and the last toggle_solo was on the bus strip.
C1_Witness ==
    /\ obs.last_op = "toggle_solo"
    /\ app.active_mix_index = NumMixes - 1
    /\ app.active_strip_index = BusIndex
    /\ ps.mixes[NumMixes - 1].channel_strips[0].solo
    /\ ps.mixes[NumMixes - 1].channel_strips[NumChannels - 1].solo
    /\ ps.mixes[NumMixes - 1].channel_strips[1].mute_by_solo

\* The pan law's level for one side, in tenths of a dB.
C2_Level(strip, side) ==
    LET cut == (strip.balance * strip.balance) \div 960
    IN  IF side = "Left"
        THEN (IF strip.balance > 0 THEN strip.fader - cut ELSE strip.fader)
        ELSE (IF strip.balance < 0 THEN strip.fader - cut ELSE strip.fader)

\* C2: for every channel strip and every combination of mute, mute_by_solo and
\* solo, each command write_channel_fader sends for the strip, left and right,
\* carries MUTED iff (mute or mute_by_solo) and not solo, and the pan law's dB
\* value otherwise; a soloed strip is never sent MUTED.
C2_WireValue ==
    \A k \in 1 .. Len(obs.sent) :
        LET cmd == obs.sent[k].cmd
        IN  cmd.mode = "input" =>
                LET strip == ps.mixes[cmd.output_bus].channel_strips[cmd.input_strip]
                IN  cmd.value =
                        IF (strip.mute \/ strip.mute_by_solo) /\ ~strip.solo
                        THEN VMuted
                        ELSE VDB(C2_Level(strip, cmd.output_channel))

\* A strip loaded as soloed and solo-muted has just been muted by the user: its
\* two commands carry the dB values of fader -6.0 panned half left.
C2_Witness ==
    /\ obs.last_op = "toggle_mute"
    /\ app.active_strip_index = 0
    /\ ps.mixes[0].channel_strips[0].mute
    /\ ps.mixes[0].channel_strips[0].mute_by_solo
    /\ ps.mixes[0].channel_strips[0].solo
    /\ Len(obs.sent) = 2
    /\ obs.sent[1].cmd.value = VDB(-60)
    /\ obs.sent[2].cmd.value = VDB(-320)

C4_Expected(m, c, side) ==
    IF c = 18 + 2 * m THEN (IF side = "Left" THEN VUnity ELSE VMuted)
    ELSE IF c = 19 + 2 * m THEN (IF side = "Left" THEN VMuted ELSE VUnity)
    ELSE VMuted

\* C4: after bypass_mixer() completes with no transport error, for every mix m
\* in 0 ..= 8 and every channel c in 0 ..= 35 the most recent bus-strip command
\* of m carries UNITY; for c = 18 + 2m the most recent left command carries
\* UNITY and the right one MUTED, for c = 19 + 2m left MUTED and right UNITY,
\* and for every other c both carry MUTED.
C4_BypassRouting ==
    (obs.last_op = "toggle_bypass" /\ app.bypass /\ AllSent) =>
        \A m \in Mixes :
            /\ device.output[m] = VUnity
            /\ \A c \in Channels : \A side \in {"Left", "Right"} :
                   device.input[m][c][side] = C4_Expected(m, c, side)

\* The fader set_fader(d) is to leave: d within [-96, +10], else the nearer end.
C3_Clamped(d, fader) ==
    /\ fader \in -960 .. 100
    /\ FLt(d, -960) => fader = -960
    /\ FGt(d, 100) => fader = 100
    /\ d \in -960 .. 100 => fader = d

\* The set_fader calls of the step just taken that no later call on the same
\* strip overrides.
C3_LastCalls ==
    {k \in 1 .. Len(obs'.fader_calls) :
        \A j \in (k + 1) .. Len(obs'.fader_calls) :
            <<obs'.fader_calls[j].mix, obs'.fader_calls[j].strip>>
                # <<obs'.fader_calls[k].mix, obs'.fader_calls[k].strip>>}

\* C3: after Strip::set_fader(d), for any d, the strip's fader lies in
\* [-96, +10]: it is d when d is in range, -96 when d is below and +10 when d is
\* above; on every path through set_fader: the fader keys, the dispatch of a
\* Control-Change mapped to a fader, the GUI's fader drag.
C3_SetFader ==
    [][\A k \in C3_LastCalls :
          LET call == obs'.fader_calls[k]
          IN  C3_Clamped(call.value, StripNth(ps'.mixes[call.mix], call.strip).fader)]_vars

\* The same for every d that is a number or an infinity.
C3_SetFaderOfNumbers ==
    [][\A k \in C3_LastCalls :
          LET call == obs'.fader_calls[k]
          IN  call.value # NaN =>
                  C3_Clamped(call.value, StripNth(ps'.mixes[call.mix], call.strip).fader)]_vars

\* A Control-Change has been dispatched to set_fader with NaN, and the first
\* strip's fader is NaN.
C3_Witness ==
    /\ obs.last_op \in {"on_tick", "update"}
    /\ \E k \in 1 .. Len(obs.fader_calls) : obs.fader_calls[k].value = NaN
    /\ ps.mixes[0].channel_strips[0].fader = NaN

\* The solo rule on the channel strips of one mix.
C12_SoloRule(strips) ==
    \/ \A i \in Channels : ~strips[i].solo /\ ~strips[i].mute_by_solo
    \/ /\ \E i \in Channels : strips[i].solo
       /\ \A i \in Channels : strips[i].mute_by_solo <=> ~strips[i].solo

C12_NoSolo(strips) == \A i \in Channels : ~strips[i].solo /\ ~strips[i].mute_by_solo

C12_Flags(strips) == [i \in Channels |-> <<strips[i].solo, strips[i].mute_by_solo>>]

\* C12: toggle_solo(i) on channel strip i of a mix with no solo leaves strip i
\* soloed and not muted by solo and every other channel strip muted by solo and
\* not soloed; a second toggle_solo(i) right after restores the solo and
\* mute_by_solo flags of every strip of the mix, from any state of the mix that
\* satisfies the solo rule.
C12_SoloTwice ==
    LET run == obs.solo_run
        strips == ps.mixes[run.mix].channel_strips
    IN  (run.count > 0 /\ run.index \in Channels) =>
            /\ (run.count = 1 /\ C12_NoSolo(run.strips)) =>
                   \A i \in Channels :
                       /\ strips[i].solo <=> i = run.index
                       /\ strips[i].mute_by_solo <=> i # run.index
            /\ (run.count = 2 /\ C12_SoloRule(run.strips)) =>
                   C12_Flags(strips) = C12_Flags(run.strips)

\* 's' has been pressed twice on the first strip of the last mix while its last
\* channel strip was soloed: the last strip is soloed alone again.
C12_Witness ==
    /\ obs.solo_run.count = 2
    /\ obs.solo_run.mix = NumMixes - 1
    /\ obs.solo_run.index = 0
    /\ ~obs.solo_run.strips[0].solo
    /\ obs.solo_run.strips[NumChannels - 1].solo
    /\ ps.mixes[NumMixes - 1].channel_strips[NumChannels - 1].solo
    /\ ps.mixes[NumMixes - 1].channel_strips[0].mute_by_solo
    /\ ~ps.mixes[NumMixes - 1].channel_strips[0].solo

\* The bus-strip commands among `sent` that no later one for the same bus
\* follows.
C13_LastBusCommands(sent) ==
    {k \in 1 .. Len(sent) :
        /\ sent[k].cmd.mode = "output"
        /\ \A j \in (k + 1) .. Len(sent) :
               ~(sent[j].cmd.mode = "output"
                 /\ sent[j].cmd.input_strip = sent[k].cmd.input_strip)}

\* The step dispatches one Control-Change, mapped to the solo of a bus strip.
C13_SoloOnBus ==
    /\ env'.exchanges = env.exchanges + 1
    /\ Len(env.queue) = 1
    /\ LET target == get_target(app.midi_mapping,
                                MidiControl(env.queue[1].channel, env.queue[1].controller))
       IN  /\ target # None
           /\ target[1].kind = "Strip"
           /\ target[1].control = "Solo"
           /\ target[1].strip_index = BusIndex

\* C13: the command written for a Bus or Main strip carries MUTED exactly when
\* that strip's mute is true, whatever is soloed in the mix; no bus strip ever
\* has solo or mute_by_solo set; toggle_solo on index 36 changes nothing.
C13_BusStrip ==
    [][/\ \A k \in C13_LastBusCommands(obs'.sent) :
              LET cmd == obs'.sent[k].cmd
              IN  (cmd.value = VMuted) <=> ps'.mixes[cmd.input_strip].bus_strip.mute
       /\ \A m \in Mixes :
              ~ps'.mixes[m].bus_strip.solo /\ ~ps'.mixes[m].bus_strip.mute_by_solo
       /\ C13_SoloOnBus => ps'.mixes = ps.mixes]_vars

\* The main strip has the mute of a mixer-state file that had all its flags
\* set, the first channel strip of its mix is soloed, and a tick has muted the
\* last mix's bus strip and written the state.
C13_Witness ==
    /\ obs.last_op \in {"on_tick", "update"}
    /\ ps.mixes[0].bus_strip.mute
    /\ ps.mixes[0].channel_strips[0].solo
    /\ ps.mixes[NumMixes - 1].bus_strip.mute
    /\ \E k \in C13_LastBusCommands(obs.sent) :
           /\ obs.sent[k].cmd.input_strip = NumMixes - 1
           /\ obs.sent[k].cmd.value = VMuted

-----------------------------------------------------------------------------
(* Properties of the learn mode *)

\* The step is a tick in which the first queued Control-Change is processed
\* while the learn state is Learning: the tick of the terminal UI, or a frame of
\* the GUI with a tick due in which the timeout does not fire first.
C5_LearnsOnTick ==
    /\ app.midi_learn_state.learning
    /\ app.midi_input
    /\ env.queue # << >>
    /\ env'.exchanges = env.exchanges + 1
    /\ app.frontend = "gui" => env.now - app.midi_learn_start_time[1] < 5

C5_Key == [channel |-> env.queue[1].channel, cc |-> env.queue[1].controller]

C5_DefaultRange(control) ==
    CASE control = "Fader" ->
            <<[midi_min |-> 0, midi_max |-> 127, target_min |-> -500, target_max |-> 100,
               curve |-> "Linear"]>>
      [] control = "Balance" ->
            <<[midi_min |-> 0, midi_max |-> 127, target_min |-> -1000, target_max |-> 1000,
               curve |-> "Linear"]>>
      [] OTHER -> << >>

\* Afterwards the learn state is Inactive (unless the user starts learning anew
\* in the same frame) and the mapping has exactly one entry of the key, for the
\* target and with the default range of the target's control.
C5_Learned ==
    LET hits == {i \in 1 .. Len(app.midi_mapping') : app.midi_mapping'[i].midi = C5_Key}
    IN  /\ obs'.input.kind # "learn" => ~app'.midi_learn_state.learning
        /\ Cardinality(hits) = 1
        /\ \A i \in hits :
              /\ app'.midi_mapping[i].target = app.midi_learn_state.target
              /\ app'.midi_mapping[i].value_range =
                     C5_DefaultRange(app.midi_learn_state.target.control)

\* C5 as stated: when a Control-Change (ch, cc) is processed while Learning
\* {target}, afterwards the learn state is Inactive, the mapping has exactly one
\* entry of key (ch, cc), that entry points at target and carries the default
\* range of the target's control, and the mapping file is written before the
\* next tick begins.
C5_LearnWrites ==
    [][C5_LearnsOnTick =>
          /\ C5_Learned
          /\ obs'.saves >= 1
          /\ env'.mapping_file = to_string_pretty(app'.midi_mapping)]_vars

\* C5, amended: as above, but save_midi_mapping is called once before the next
\* tick begins, and the file is written (with the mapping, sorted) when the
\* front-end has a place for it and the file can be created; otherwise the file
\* is left as it was.
C5_LearnSaves ==
    [][C5_LearnsOnTick =>
          /\ C5_Learned
          /\ obs'.save_calls = 1
          /\ IF app.config_dir /\ env.writable
             THEN /\ obs'.saves = 1
                  /\ env'.mapping_file = to_string_pretty(app'.midi_mapping)
             ELSE /\ obs'.saves = 0
                  /\ env'.mapping_file = env.mapping_file]_vars

\* In the terminal UI controller 1 of channel 0, which the default mapping
\* binds to a fader, has been learned for the first strip's mute, and the file
\* holds the mapping.
C5_Witness ==
    /\ obs.last_op = "on_tick"
    /\ obs.saves = 1
    /\ ~app.midi_learn_state.learning
    /\ app.midi_mapping[1] =
           [midi |-> [channel |-> 0, cc |-> 1],
            target |-> [kind |-> "Strip", mix_index |-> 0, strip_index |-> 0,
                        control |-> "Mute"],
            value_range |-> << >>]
    /\ Len(app.midi_mapping) = 17
    /\ env.mapping_file.kind = "json"
    /\ env.mapping_file = to_string_pretty(app.midi_mapping)

\* The step is the handler `op`, not the arrival of a message or the passing of
\* time.
C6_Handler(op) ==
    /\ obs'.last_op = op
    /\ env'.now = env.now
    /\ Len(env'.queue) <= Len(env.queue)

\* The entries are as they were, save_midi_mapping is not called and the file
\* is not written.
C6_Untouched ==
    /\ app'.midi_mapping = app.midi_mapping
    /\ obs'.save_calls = 0
    /\ obs'.saves = 0
    /\ env'.mapping_file = env.mapping_file

\* C6: leaving Learning by Esc (terminal UI) or by the 5-second timeout (GUI)
\* sets the learn state to Inactive and leaves the mapping's entries as they
\* are, in number, content and order, and triggers no write of the mapping file.
C6_CancelFrame ==
    [][/\ (app.midi_learn_state.learning /\ C6_Handler("esc")) =>
              (~app'.midi_learn_state.learning /\ C6_Untouched)
       /\ (/\ app.midi_learn_state.learning
           /\ C6_Handler("update")
           /\ env.now - app.midi_learn_start_time[1] >= 5) =>
              /\ obs'.input.kind # "learn" => ~app'.midi_learn_state.learning
              /\ C6_Untouched]_vars

\* The GUI has no configuration directory; a learned entry stands at the end
\* of the mapping, out of order, and a later learning has timed out.
C6_Witness ==
    /\ obs.last_op = "update"
    /\ obs.timed_out
    /\ ~app.midi_learn_state.learning
    /\ Len(app.midi_mapping) = 17
    /\ app.midi_mapping[17].midi = [channel |-> 0, cc |-> 1]
    /\ env.mapping_file.kind = "absent"

\* After the tick or frame just run, a learn state still Learning was started
\* less than 5 seconds ago.
C7_InTime == app'.midi_learn_state.learning => env'.now - obs'.learning_since < 5

\* C7 as stated: in both front-ends the learn state is back to Inactive once 5
\* seconds have passed since start_learning, enforced on the tick.
C7_Timeout ==
    [][(C6_Handler("on_tick") \/ C6_Handler("update")) => C7_InTime]_vars

\* C7, amended: in the GUI the learn state is back to Inactive in the first
\* frame that finds 5 seconds passed since learning was started; the terminal
\* UI has no timeout, there Learning lasts until a Control-Change or Esc.
C7_TimeoutGui ==
    [][C6_Handler("update") => C7_InTime]_vars

\* A frame of the GUI, 5 seconds after learning was started, has found the
\* time passed; no message was queued.
C7_Witness ==
    /\ obs.last_op = "update"
    /\ obs.timed_out
    /\ obs.input.kind = "none"
    /\ ~app.midi_learn_state.learning
    /\ env.now - obs.learning_since = 5
    /\ app.midi_mapping = create_default

-----------------------------------------------------------------------------
(* Properties of the state poll *)

C9_Word(state, i) ==
    CASE i \in 0 .. 7 -> state.mic[i]
      [] i \in 8 .. 9 -> state.spdif[i - 8]
      [] i \in 10 .. 17 -> state.adat[i - 10]
      [] i \in 18 .. 35 -> state.daw[i - 18]

C9_Synced(old, new, v) ==
    /\ new.value = v
    /\ new.max = (IF FGt(v, old.max) THEN v ELSE old.max)
    /\ new.clip = (old.clip \/ FGt(v, ClipThreshold))

\* C9: after a successful poll_state each of the 36 channel meters and 18 bus
\* meters has as value the decoded reading of its state word (channel meters:
\* mic 0..7, S/PDIF 8..9, ADAT 10..17, DAW 18..35; bus meters 0..17), as max the
\* larger of its previous max and the value, and as clip its previous clip or
\* value > -0.001 dBFS.
C9_MeterSync ==
    [][(obs'.last_op = "on_tick" /\ obs'.poll_ok /\ env'.exchanges = env.exchanges + 1) =>
          LET state == Frame(env'.signal, device)
          IN  /\ \A i \in 0 .. 35 :
                    C9_Synced(ps.channel_meters[i], ps'.channel_meters[i],
                              gain_to_db(C9_Word(state, i)))
              /\ \A i \in 0 .. 17 :
                    C9_Synced(ps.bus_meters[i], ps'.bus_meters[i],
                              gain_to_db(state.bus[i]))]_vars

\* After a successful poll the first S/PDIF meter reads -6 dB and still holds
\* the clip and the max of an earlier reading above the threshold.
C9_Witness ==
    /\ obs.last_op = "on_tick"
    /\ obs.poll_ok
    /\ ps.channel_meters[8] = [value |-> -6020600, max |-> -795, clip |-> TRUE]
    /\ ps.channel_meters[7] = [value |-> -6020600, max |-> -1060, clip |-> FALSE]

C10_Meters == [i \in 0 .. 53 |-> IF i < 36 THEN ps.channel_meters[i] ELSE ps.bus_meters[i - 36]]

\* C10: in a step that is not clear_clip no meter's clip goes from true to false
\* and no meter's max decreases; clear_clip sets clip = false and max = -infinity
\* on all 54 meters and leaves each meter's value as it is.
C10_ClipLatch ==
    [][IF obs'.last_op = "clear_clip"
       THEN \A i \in 0 .. 53 :
               /\ ~C10_Meters'[i].clip
               /\ C10_Meters'[i].max = NegInf
               /\ C10_Meters'[i].value = C10_Meters[i].value
       ELSE \A i \in 0 .. 53 :
               /\ C10_Meters[i].clip => C10_Meters'[i].clip
               /\ ~FLt(C10_Meters'[i].max, C10_Meters[i].max)]_vars

\* The clip indicators have been cleared while the last DAW meter read above
\* the threshold, and a failed poll has followed.
C10_Witness ==
    /\ obs.last_op = "on_tick"
    /\ ~obs.poll_ok
    /\ ps.channel_meters[35] = [value |-> -795, max |-> NegInf, clip |-> FALSE]
    /\ ps.bus_meters[17] = [value |-> -6020600, max |-> NegInf, clip |-> FALSE]

\* The step makes a state-request exchange that fails.
C11_FailedPoll ==
    /\ env'.exchanges = env.exchanges + 1
    /\ ~obs'.poll_ok

\* C11: when the state-request exchange of poll_state fails, no channel meter,
\* no bus meter, none of the four cached switches and no strip field changes.
C11_Untouched ==
    [][C11_FailedPoll =>
          /\ ps'.channel_meters = ps.channel_meters
          /\ ps'.bus_meters = ps.bus_meters
          /\ ps'.phantom_power = ps.phantom_power
          /\ ps'.in_1_2_line = ps.in_1_2_line
          /\ ps'.main_mute = ps.main_mute
          /\ ps'.main_mono = ps.main_mono
          /\ ps'.mixes = ps.mixes]_vars

\* The second exchange has failed: phantom power is still cached as off
\* although the device has switched it on since the first exchange, and the
\* first mic meter holds the reading of the first exchange.
C11_Witness ==
    /\ env.exchanges = 2
    /\ ~obs.poll_ok
    /\ ~ps.phantom_power
    /\ device.button["Phantom"] = VBool(TRUE)
    /\ ps.channel_meters[0] = [value |-> -795, max |-> -795, clip |-> TRUE]
    /\ ps.bus_meters[17].clip

-----------------------------------------------------------------------------
(* Properties of the MIDI dispatch *)

C15_Button(control) ==
    CASE control = "PhantomPower" -> "Phantom"
      [] control = "Line1_2" -> "Line"
      [] control = "MainMute" -> "Mute"
      [] control = "MainMono" -> "Mono"

C15_Cached(p, control) ==
    CASE control = "PhantomPower" -> p.phantom_power
      [] control = "Line1_2" -> p.in_1_2_line
      [] control = "MainMute" -> p.main_mute
      [] control = "MainMono" -> p.main_mono

\* The commands the claim has the dispatch of `messages` send, p being the
\* facade at the dispatch: one button command per message with a raw value
\* above 63.
RECURSIVE C15_Commands(_, _, _)
C15_Commands(mappings, p, messages) ==
    IF messages = << >> THEN << >>
    ELSE LET msg == Head(messages)
             control == get_target(mappings, MidiControl(msg.channel, msg.controller))[1].control
             rest == C15_Commands(mappings, p, Tail(messages))
         IN  IF msg.value > 63
             THEN << set_button(C15_Button(control), ~C15_Cached(p, control)) >> \o rest
             ELSE rest

\* C15: a Control-Change mapped to one of the four global switches, dispatched
\* while Inactive, sends exactly one button command, carrying the negation of
\* the cached switch, if its raw value is above 63, and nothing otherwise.
C15_GlobalSwitch ==
    [][(env'.exchanges = env.exchanges + 1 /\ ~app.midi_learn_state.learning) =>
          [k \in 1 .. Len(obs'.sent) |-> obs'.sent[k].cmd]
              = C15_Commands(app.midi_mapping, ps', env.queue)]_vars

\* A tick has dispatched one Control-Change on phantom power with phantom
\* power cached as on: one command, switching it off.
C15_Witness ==
    /\ obs.last_op \in {"on_tick", "update"}
    /\ ps.phantom_power
    /\ Len(obs.sent) = 1
    /\ obs.sent[1].cmd = set_button("Phantom", FALSE)

\* The step dispatches one Control-Change, mapped to the mute of a strip, while
\* the learn state is Inactive.
C14_OneMute(target) ==
    /\ env'.exchanges = env.exchanges + 1
    /\ Len(env.queue) = 1
    /\ ~app.midi_learn_state.learning
    /\ target = get_target(app.midi_mapping,
                           MidiControl(env.queue[1].channel, env.queue[1].controller))
    /\ target # None
    /\ target[1].kind = "Strip"
    /\ target[1].control = "Mute"

C14_Mute(p, target) == StripNth(p.mixes[target.mix_index], target.strip_index).mute

C14_Dispatched(target) ==
    IF env.queue[1].value >= 63
    THEN /\ C14_Mute(ps', target) = ~C14_Mute(ps, target)
         /\ [k \in 1 .. Len(obs'.sent) |-> obs'.sent[k].cmd] = write_state_commands(ps'.mixes)
    ELSE /\ C14_Mute(ps', target) = C14_Mute(ps, target)
         /\ obs'.sent = << >>

\* C14: the dispatch of a Control-Change mapped to a Mute, while Inactive,
\* flips the strip's mute once and writes the full state when the raw value is
\* 63 or more, and changes no mute and sends nothing when it is less; in both
\* front-ends.
C14_MuteDispatch ==
    [][\A target \in {Some(StripTarget(0, 0, "Mute"))} :
          C14_OneMute(target) => C14_Dispatched(target[1])]_vars

\* The same in the GUI, and in the terminal UI for an entry without a range
\* and a raw value of 63 or more.
C14_MuteDispatchGui ==
    [][\A target \in {Some(StripTarget(0, 0, "Mute"))} :
          (/\ C14_OneMute(target)
           /\ \/ app.frontend = "gui"
              \/ /\ env.queue[1].value >= 63
                 /\ find(app.midi_mapping,
                         MidiControl(env.queue[1].channel, env.queue[1].controller))[1].value_range
                        = None)
              => C14_Dispatched(target[1])]_vars

\* The terminal UI has dispatched a Control-Change of raw value 62 on the mute
\* of the first strip: the mute is as it was and the full state has been
\* written.
C14_Witness ==
    /\ app.frontend = "tui"
    /\ env.controller = {Message(0, 20, 62)}
    /\ obs.last_op = "on_tick"
    /\ env.queue = << >>
    /\ Len(obs.sent) = NumMixes * CommandsPerMix
    /\ ~ps.mixes[0].channel_strips[0].mute

-----------------------------------------------------------------------------
(* Properties of the MIDI mapping *)

\* The entry of the mapping in use for the control of the last call.
C16_Entry ==
    LET hits == {i \in 1 .. Len(app.midi_mapping) :
                    app.midi_mapping[i].midi = obs.transform.midi}
    IN  IF hits = {} THEN None ELSE Some(app.midi_mapping[CHOOSE i \in hits : TRUE])

C17_NoEntry == obs.transform.called /\ C16_Entry = None

\* C17, as stated: for a control with no entry transform_value maps 0..127 to
\* 0.0..1.0: raw 0 gives 0.0, raw 127 gives 1.0, raw 64 about 0.5.
C17_UnitRange ==
    C17_NoEntry =>
        /\ obs.transform.midi_value = 0 => obs.transform.result = 0
        /\ obs.transform.midi_value = 127 => obs.transform.result = 10
        /\ obs.transform.midi_value = 64 => obs.transform.result \in 4 .. 6

\* The byte 127 has been transformed for a control with no entry, with the
\* default mapping in use: the result is 127.0.
C17_Witness ==
    /\ C17_NoEntry
    /\ Len(app.midi_mapping) = 17
    /\ obs.transform.midi_value = 127
    /\ obs.transform.result = 1270

\* |a|
C18_Abs(a) == IF a < 0 THEN 0 - a ELSE a

\* `result` is target_min + f(k / d) * span to the precision values are held
\* with: a tenth for the linear and the exponential curve, a hundredth of the
\* span and two tenths for the square root.
C18_Curved(range, k, d, result) ==
    LET span == range.target_max - range.target_min
        q == result - range.target_min
        t == (C18_Abs(span) \div 100) + 2
    IN  CASE range.curve = "Linear" -> C18_Abs(q * d - k * span) < d
          [] range.curve = "Exponential" -> C18_Abs(q * d * d - k * k * span) < d * d
          [] range.curve = "Logarithmic" ->
                /\ q = 0 \/ (q > 0) = (span > 0)
                /\ (C18_Abs(q) + t) * (C18_Abs(q) + t) * d >= span * span * k
                /\ C18_Abs(q) > t =>
                       (C18_Abs(q) - t) * (C18_Abs(q) - t) * d <= span * span * k

\* C18: for a ValueRange with midi_min < midi_max, transform(midi_min) is
\* target_min, transform(midi_max) is target_max, and in between the result is
\* target_min + f(x) * (target_max - target_min), x = (v - midi_min) /
\* (midi_max - midi_min), f(x) = x, x^2 or sqrt(x) by the curve; for 0..100 ->
\* 0..100: Linear 50 -> 50, Exponential 50 -> 25, Logarithmic 25 -> 50.
C18_Transform ==
    (/\ obs.transform.called
     /\ C16_Entry # None
     /\ C16_Entry[1].value_range # None) =>
        LET range == C16_Entry[1].value_range[1]
            v == obs.transform.midi_value
            result == obs.transform.result
        IN  (range.midi_min < range.midi_max /\ v \in range.midi_min .. range.midi_max) =>
                /\ v = range.midi_min => result = range.target_min
                /\ v = range.midi_max => result = range.target_max
                /\ C18_Curved(range, v - range.midi_min, range.midi_max - range.midi_min, result)
                /\ (range.midi_min = 0 /\ range.midi_max = 100
                        /\ range.target_min = 0 /\ range.target_max = 1000) =>
                       /\ (range.curve = "Linear" /\ v = 50) => result = 500
                       /\ (range.curve = "Exponential" /\ v = 50) => result = 250
                       /\ (range.curve = "Logarithmic" /\ v = 25) => result = 500

\* The byte 25 has been transformed by the square-root curve from 0..100 to
\* 0..100: the result is 50.
C18_Witness ==
    /\ obs.transform.called
    /\ C16_Entry # None
    /\ C16_Entry[1].value_range = Some(ValueRange(0, 100, 0, 1000, "Logarithmic"))
    /\ obs.transform.midi_value = 25
    /\ obs.transform.result = 500

\* The mapping in use is the default one: there is no mapping file that can be
\* read.
C19_IsDefault == env.mapping_file.kind # "json" \/ ~app.config_dir

\* C19: create_default yields exactly 17 entries, all on channel 0: CC 1..8 on
\* the faders of strips 0..7 of mix 0 with the linear range [-96, +10], CC
\* 10..17 on the balances of those strips with the linear range [-100, +100],
\* CC 102 on PhantomPower with no range; the 17 keys are pairwise distinct.
C19_Default ==
    (C19_IsDefault /\ obs.last_op \in {"new", "startup", "transform_value"}) =>
        LET m == app.midi_mapping
        IN  /\ Len(m) = 17
            /\ \A k \in 1 .. 17 : m[k].midi.channel = 0
            /\ \A i \in 0 .. 7 :
                  \E k \in 1 .. 17 :
                      /\ m[k].midi.cc = i + 1
                      /\ m[k].target = [kind |-> "Strip", mix_index |-> 0,
                                        strip_index |-> i, control |-> "Fader"]
                      /\ m[k].value_range =
                             <<[midi_min |-> 0, midi_max |-> 127, target_min |-> -960,
                                target_max |-> 100, curve |-> "Linear"]>>
            /\ \A i \in 0 .. 7 :
                  \E k \in 1 .. 17 :
                      /\ m[k].midi.cc = i + 10
                      /\ m[k].target = [kind |-> "Strip", mix_index |-> 0,
                                        strip_index |-> i, control |-> "Balance"]
                      /\ m[k].value_range =
                             <<[midi_min |-> 0, midi_max |-> 127, target_min |-> -1000,
                                target_max |-> 1000, curve |-> "Linear"]>>
            /\ \E k \in 1 .. 17 :
                  /\ m[k].midi.cc = 102
                  /\ m[k].target.kind = "Global"
                  /\ m[k].target.control = "PhantomPower"
                  /\ m[k].value_range = << >>
            /\ \A j, k \in 1 .. 17 : j # k => m[j].midi # m[k].midi

\* Started with a mapping file that does not parse, the front-end uses the
\* default mapping: byte 127 on CC 1 is transformed to +10 dB.
C19_Witness ==
    /\ env.mapping_file.kind = "malformed"
    /\ obs.transform.called
    /\ obs.transform.midi = [channel |-> 0, cc |-> 1]
    /\ obs.transform.midi_value = 127
    /\ obs.transform.result = 100
    /\ Len(app.midi_mapping) = 17


\* C20: serializing a mapping sorted by (channel, cc) to JSON and deserializing
\* the result yields an equal mapping: the same number of entries, and entry by
\* entry the same midi key, target and value_range.
C20_RoundTrip ==
    obs.roundtrip.called =>
        LET mapping == obs.roundtrip.mapping
            back == obs.roundtrip.back
        IN  /\ back # None
            /\ Len(back[1]) = Len(mapping)
            /\ \A i \in 1 .. Len(mapping) :
                  /\ back[1][i].midi = mapping[i].midi
                  /\ back[1][i].target = mapping[i].target
                  /\ back[1][i].value_range = mapping[i].value_range

\* A mapping of a Global target with no range and a Strip target with a
\* descending range of fractions has been written and read back.
C20_Witness ==
    /\ obs.roundtrip.called
    /\ obs.roundtrip.mapping =
           <<MidiMappingEntry(MidiControl(0, 1), GlobalTarget("PhantomPower"), None),
             MidiMappingEntry(MidiControl(15, 127), StripTarget(8, 36, "Solo"),
                              Some(ValueRange(20, 30, 1005, -5, "Exponential")))>>
    /\ obs.roundtrip.back = Some(obs.roundtrip.mapping)


-----------------------------------------------------------------------------
(* Properties of the mixer-state file *)

\* The front-end has just loaded a file that a session wrote from a model.
C21_Loaded == obs.last_op = "startup" /\ obs.saved # None /\ ~app.aborted

C21_Names(state, source) ==
    /\ \A i \in Mixes : state.mixes[i].name = source.mixes[i].name
    /\ state.channel_names = source.channel_names

C21_ChannelStrips(state, source) ==
    \A i \in Mixes, j \in Channels :
        Persisted(state.mixes[i].channel_strips[j])
            = Persisted(source.mixes[i].channel_strips[j])

\* C21: serializing the mixer model and applying load_config to the text
\* restores the persisted subset exactly, whatever the receiving model held:
\* the name of each mix, the five persisted fields of each channel strip, the
\* persisted fields of each bus strip, and the channel names.
C21_Restores ==
    C21_Loaded =>
        /\ C21_Names(ps, obs.saved[1])
        /\ C21_ChannelStrips(ps, obs.saved[1])
        /\ \A i \in Mixes :
              Persisted(ps.mixes[i].bus_strip) = Persisted(obs.saved[1].mixes[i].bus_strip)

\* What holds: names and channel strips are restored, and of each bus strip
\* its fader and its mute.
C21_RestoresButBus ==
    C21_Loaded =>
        /\ C21_Names(ps, obs.saved[1])
        /\ C21_ChannelStrips(ps, obs.saved[1])
        /\ \A i \in Mixes :
              /\ ps.mixes[i].bus_strip.fader = obs.saved[1].mixes[i].bus_strip.fader
              /\ ps.mixes[i].bus_strip.mute = obs.saved[1].mixes[i].bus_strip.mute

\* A fresh model has loaded the file of a session that ended with the main
\* strip's balance at 25: names and channel strips are the session's, the
\* balance of the main strip is 0.
C21_Witness ==
    /\ C21_Loaded
    /\ obs.saved[1].mixes[0].bus_strip.balance = 250
    /\ ps.mixes[0].bus_strip.balance = 0
    /\ ps.channel_names[0] = "Kick"
    /\ ps.mixes[0].channel_strips[0].fader = -605

\* The mixer-state file is there and load_config cannot read it to its end.
C22_Malformed == env.config.present /\ ~load_config_ok(env.config)

\* C22: loading a malformed mixer-state file (unparseable text, or a document
\* with fewer than 9 mixes or fewer than 36 channel strips in a mix) does not
\* abort the process: the model continues from defaults.
C22_Recovers ==
    (obs.last_op = "startup" /\ C22_Malformed) =>
        /\ ~app.aborted
        /\ \A i \in Mixes :
              /\ \A j \in Channels :
                    Persisted(ps.mixes[i].channel_strips[j]) = Persisted(NewStrip("Channel", j))
              /\ Persisted(ps.mixes[i].bus_strip) = Persisted(NewStrip("Bus", i))

\* The start on a document of 8 mixes has panicked.
C22_Witness ==
    /\ obs.last_op = "startup"
    /\ env.config.present
    /\ env.config.text = "json"
    /\ env.config.mixes = NumMixes - 1
    /\ app.aborted


\* C23: if the MIDI mapping file is missing or fails to deserialize at
\* start-up, the mapping in use equals create_default and start-up continues,
\* in both front-ends.
C23_Fallback ==
    (mapping_from_str(env.mapping_file) = None) =>
        /\ app.midi_mapping = create_default
        /\ ~app.aborted
        /\ obs.last_op = "new" => ENABLED Startup

\* The GUI has started on a mapping file that is JSON but does not
\* deserialize, and runs with the default mapping.
C23_Witness ==
    /\ app.frontend = "gui"
    /\ env.mapping_file = MappingUnreadable
    /\ obs.last_op = "startup"
    /\ app.midi_mapping = create_default
    /\ ~app.aborted

-----------------------------------------------------------------------------
(* Properties of the lossy transport *)

\* The commands of a log, whether they were delivered or not.
CommandsOf(sent) == [k \in 1 .. Len(sent) |-> sent[k].cmd]

\* The device with the addresses of the failed sends of a log left out of the
\* comparison.
RECURSIVE BlankedAt(_, _)
BlankedAt(dev, cmds) ==
    IF cmds = {} THEN dev
    ELSE LET cmd == CHOOSE c \in cmds : TRUE
         IN  BlankedAt(Receive(dev, [cmd EXCEPT !.value = VNone]), cmds \ {cmd})

Blanked(dev, sent) ==
    BlankedAt(dev, {sent[k].cmd : k \in {j \in 1 .. Len(sent) : ~sent[j].ok}})

\* The handler of the terminal UI that ran last, run again from the current
\* state on a transport on which no send fails.
Unfailing(op) ==
    CASE op = "startup" -> startup(Begin(World, op), {})
      [] op = "toggle_mute" -> toggle_mute(Begin(World, op), {})
      [] op = "toggle_solo" -> tui_toggle_solo(Begin(World, op), {})
      [] op = "toggle_bypass" -> tui_toggle_bypass(Begin(World, op), {})

\* What write_state, write_channel_fader and bypass_mixer are to send in the
\* handler that ran last, given the model it left.
Expected(op) ==
    CASE op = "startup" -> IF env.config.present THEN write_state_commands(ps'.mixes) ELSE << >>
      [] op = "toggle_mute" ->
             fader_commands(ps'.mixes, app.active_mix_index, app.active_strip_index)
      [] op = "toggle_solo" -> write_state_commands(ps'.mixes)
      [] op = "toggle_bypass" ->
             IF app'.bypass THEN bypass_commands ELSE write_state_commands(ps'.mixes)

\* C24: a send that fails cancels only that send.  In every handler of the
\* terminal UI that calls write_state, write_channel_fader or bypass_mixer on a
\* lossy transport, the commands attempted are those of the whole sequence in
\* its order, as when nothing fails; the model and the application are left as
\* when nothing fails, so that every later call starts from the same state; and
\* the device differs from the one nothing failed on only at the addresses of
\* the failed sends.
C24_OnlyThatSend ==
    [][\A op \in {"startup", "toggle_mute", "toggle_solo", "toggle_bypass"} :
          obs'.last_op = op =>
          LET clean == Unfailing(op)
              sent == obs'.sent
          IN  /\ CommandsOf(sent) = Expected(op)
              /\ [k \in 1 .. Len(sent) |-> [sent[k] EXCEPT !.ok = TRUE]] = clean.obs.sent
              /\ ps' = clean.ps
              /\ app' = clean.app
              /\ Blanked(device', sent) = Blanked(clean.device, sent)]_vars

\* The bus command of the first mix failed within write_state after a solo
\* key: the device's bus 0 has not received it, and the commands after it, to
\* the last one for the bus of the last mix, were sent and received.
C24_Witness ==
    /\ obs.last_op = "toggle_solo"
    /\ Len(obs.sent) = NumMixes * CommandsPerMix
    /\ ~obs.sent[WriteStateBusPos(0)].ok
    /\ device.output[0] # obs.sent[WriteStateBusPos(0)].cmd.value
    /\ \A k \in (WriteStateBusPos(0) + 1) .. Len(obs.sent) : obs.sent[k].ok
    /\ device.output[NumMixes - 1] = obs.sent[Len(obs.sent)].cmd.value

-----------------------------------------------------------------------------
(* Properties of the pan laws *)

\* What a law takes off the side the strip is panned away from lies within a
\* tenth of `cut` / `per` dB.
TakesOff(fader, side, cut, per) ==
    /\ per * (fader - side) <= 10 * cut
    /\ 10 * cut < per * (fader - side + 1)

\* C25: for every fader and every balance in [-100, 100], pan_rule returns
\* (fader, fader) at balance 0; with the balance below 0 the left side is the
\* fader and the right side is the fader less balance^2 / 96 (Exponential) or
\* less |balance| (Simple); with the balance above 0 the sides are exchanged.
\* The side the strip is panned to is always the fader.
C25_PanRule ==
    obs.pan.called =>
        LET p == obs.pan
            b == p.balance
            towards == IF b < 0 THEN p.left ELSE p.right
            away == IF b < 0 THEN p.right ELSE p.left
        IN  /\ towards = p.fader
            /\ b = 0 => p.left = p.fader /\ p.right = p.fader
            /\ b # 0 /\ p.fader # NaN =>
                   IF p.rule = "Simple"
                   THEN away = p.fader - (IF b < 0 THEN 0 - b ELSE b)
                   ELSE TakesOff(p.fader, away, (b * b) \div 100, 96)
            /\ p.fader = NaN => away = NaN

\* The spec's example: fader 0 dB and balance -50 under the exponential law
\* give left 0 dB and right -2500 / 96 = -26.0 dB.
C25_Witness ==
    /\ obs.pan.called
    /\ obs.pan.rule = "Exponential"
    /\ obs.pan.fader = 0
    /\ obs.pan.balance = -500
    /\ obs.pan.left = 0
    /\ obs.pan.right = -260

-----------------------------------------------------------------------------
(* Properties of the solo rule across operations *)

Soloed(mix) == {i \in Channels : mix.channel_strips[i].solo}

\* The mixes whose set of soloed strips the step changes.
SoloChanged == {m \in Mixes : Soloed(ps'.mixes[m]) # Soloed(ps.mixes[m])}

\* C26: the per-mix solo rule holds after every operation that changes the set
\* of soloed strips of a mix: toggle_solo from the keyboard or the GUI, the MIDI
\* Solo dispatch, and load_config of a well-formed mixer-state file whatever
\* its solo and mute_by_solo values.
C26_SoloRuleKept ==
    [][\A m \in SoloChanged : C12_SoloRule(ps'.mixes[m].channel_strips)]_vars

\* The same of every operation but the load at start-up.
C26_ToggleKeeps ==
    [][obs'.last_op # "startup" =>
          \A m \in SoloChanged : C12_SoloRule(ps'.mixes[m].channel_strips)]_vars

\* A well-formed file with "solo": true and "mute_by_solo": false on strip 0 of
\* mix 0 and no other strip muted by solo has been loaded: strip 0 is soloed
\* and the other strips of the mix play on.
C26_Witness ==
    /\ obs.last_op = "startup"
    /\ ~app.aborted
    /\ <<0, 0>> \in DOMAIN env.config.edits
    /\ ps.mixes[0].channel_strips[0].solo
    /\ \A i \in Channels : ~ps.mixes[0].channel_strips[i].mute_by_solo

-----------------------------------------------------------------------------
(* Properties of the order of writes *)

\* Where a command goes: the fader it sets, without the value.
AddressOf(cmd) ==
    [mode |-> cmd.mode, input_strip |-> cmd.input_strip, output_bus |-> cmd.output_bus,
     output_channel |-> cmd.output_channel]

ChannelAddress(strip, number, side) ==
    [mode |-> "input", input_strip |-> strip, output_bus |-> number, output_channel |-> side]

BusAddress(number) ==
    [mode |-> "output", input_strip |-> number, output_bus |-> 0, output_channel |-> "Left"]

\* The model a handler that ends in write_state hands to it: the loaded one at
\* start-up, the one with the solo toggled after the solo key.
C27_Handed ==
    IF obs'.last_op = "startup" THEN load_config(Begin(World, "startup"), env.config).ps
    ELSE [ps EXCEPT !.mixes[app.active_mix_index] = toggle_solo(@, app.active_strip_index)]

\* C27: write_state sends 9 x (36 x 2 + 1) = 657 commands whatever the model
\* holds: for mix 0, then 1, ..., then 8, the left and then the right command
\* of channel strips 0 .. 35 in ascending order and then the mix's one
\* bus-strip command; and it leaves the model as it was handed.
C27_WriteOrder ==
    [][(obs'.last_op \in {"startup", "toggle_solo"} /\ obs'.sent # << >>) =>
          /\ Len(obs'.sent) = 657
          /\ \A i \in 0 .. 8 :
                LET number == ps'.mixes[i].bus_strip.number
                IN  /\ \A j \in 0 .. 35 :
                          /\ AddressOf(obs'.sent[73 * i + 2 * j + 1].cmd)
                                 = ChannelAddress(j, number, "Left")
                          /\ AddressOf(obs'.sent[73 * i + 2 * j + 2].cmd)
                                 = ChannelAddress(j, number, "Right")
                    /\ AddressOf(obs'.sent[73 * i + 73].cmd) = BusAddress(number)
          /\ ps' = C27_Handed]_vars

\* The solo key has written the state of a mixer loaded from a file with strip
\* 0 muted and soloed: 657 commands, the first for the left of strip 0 of the
\* first mix, the 73rd for its bus strip, the last for the last mix's bus strip.
C27_Witness ==
    /\ obs.last_op = "toggle_solo"
    /\ env.config.present
    /\ ps.mixes[0].channel_strips[0].mute
    /\ Len(obs.sent) = 657
    /\ AddressOf(obs.sent[1].cmd) = ChannelAddress(0, 0, "Left")
    /\ obs.sent[1].cmd.value # VMuted
    /\ obs.sent[3].cmd.value = VMuted
    /\ AddressOf(obs.sent[73].cmd) = BusAddress(0)
    /\ AddressOf(obs.sent[657].cmd) = BusAddress(NumMixes - 1)

\* The mute key is pressed on a channel or bus strip: toggle_mute flips the
\* strip's mute and calls write_channel_fader on the active mix and strip.
C28_MuteKey ==
    /\ obs'.last_op = "toggle_mute"
    /\ StripNth(ps.mixes[app.active_mix_index], app.active_strip_index).kind # "Main"

\* C28: write_channel_fader(mix, strip) sends exactly two commands for a
\* channel strip, the left and then the right one, with input_strip the
\* strip's index and output_bus the mix's bus number, and exactly one bus-strip
\* command addressed by the mix's bus number for index 36; it sends nothing
\* for another strip or mix and leaves the model as the handler handed it.
C28_WriteChannelFader ==
    [][C28_MuteKey =>
          LET mix == app.active_mix_index
              index == app.active_strip_index
              number == ps.mixes[mix].bus_strip.number
              sent == obs'.sent
          IN  /\ index < 36 =>
                    /\ Len(sent) = 2
                    /\ AddressOf(sent[1].cmd) = ChannelAddress(index, number, "Left")
                    /\ AddressOf(sent[2].cmd) = ChannelAddress(index, number, "Right")
              /\ index = 36 =>
                    /\ Len(sent) = 1
                    /\ AddressOf(sent[1].cmd) = BusAddress(number)
              /\ ps' = [ps EXCEPT !.mixes[mix] =
                            SetStripNth(@, index,
                                [StripNth(@, index) EXCEPT !.mute = ~@])]]_vars

\* The mute key has been pressed on the bus strip of the last mix: one command,
\* muted, for bus 8; and before that on the last channel strip of the mix.
C28_Witness ==
    /\ obs.last_op = "toggle_mute"
    /\ app.active_mix_index = NumMixes - 1
    /\ app.active_strip_index = BusIndex
    /\ ps.mixes[NumMixes - 1].bus_strip.mute
    /\ ps.mixes[NumMixes - 1].channel_strips[NumChannels - 1].mute
    /\ Len(obs.sent) = 1
    /\ AddressOf(obs.sent[1].cmd) = BusAddress(NumMixes - 1)
    /\ obs.sent[1].cmd.value = VMuted

-----------------------------------------------------------------------------
(* Properties of the MIDI worker *)

\* The Control-Changes among the events received, in arrival order, as
\* messages of three bytes.
ControlChanges(events) ==
    LET controllers == SelectSeq(events, LAMBDA event : event.type = "Controller")
    IN  [k \in 1 .. Len(controllers) |->
            [channel |-> controllers[k].channel,
             controller |-> controllers[k].param % 256,
             value |-> controllers[k].value % 256]]

\* C29: every Control-Change the MIDI worker receives is delivered to the
\* core exactly once and in arrival order: the messages processed over the
\* ticks so far, followed by those still queued, are the Control-Changes among
\* the events received, none lost, duplicated or reordered, and no event of
\* another type among them; and while ticks keep occurring, the n-th
\* Control-Change received is eventually processed.
C29_Delivery ==
    /\ [](obs.processed \o env.queue = ControlChanges(env.received))
    /\ \A n \in 1 .. MaxEvents :
          (Len(ControlChanges(env.received)) >= n /\ env.exchanges < env.horizon)
              ~> (Len(obs.processed) >= n)

\* Two ticks have processed the phantom-power pad and then the fader whose
\* controller number arrived as 258, a note having arrived between them.
C29_Witness ==
    /\ env.exchanges = 2
    /\ Len(env.received) = 3
    /\ env.received[2].type = "NoteOn"
    /\ env.queue = << >>
    /\ obs.processed = << Message(0, 102, 127), Message(0, 2, 64) >>

\* C30: the queue between the MIDI worker and the core is bounded: however
\* long the core goes without ticking, the number of undelivered messages stays
\* within a fixed capacity, messages beyond it being dropped.  Of the
\* MaxEvents Control-Changes that may arrive before a tick, a queue with a
\* capacity would hold fewer than all for some capacity below MaxEvents.
C30_Bounded == Len(env.queue) < MaxEvents

\* What the channel does: the worker's send never blocks, and every
\* Control-Change received lengthens the queue by one, whatever its length.
C30_NothingDropped ==
    [][(env'.received # env.received
           /\ env'.received[Len(env'.received)].type = "Controller") =>
          Len(env'.queue) = Len(env.queue) + 1]_vars

\* No tick yet, and every one of the Control-Changes received is queued.
C30_Witness ==
    /\ env.exchanges = 0
    /\ Len(env.received) = MaxEvents
    /\ Len(env.queue) = MaxEvents

-----------------------------------------------------------------------------
(* Properties of the main strip *)

\* C31: the Main strip, the bus strip of mix 0, has no strip-level mute: its
\* mute flag is false in every reachable state, a mute request addressed to it
\* by key, by the GUI's M button or by a MIDI Mute dispatch being routed to the
\* global main-mute switch.
C31_MainNoMute == ~ps.mixes[0].bus_strip.mute

\* The mute key on the Main strip does go to the main-mute switch: one button
\* command, the strip's flag as it was.
C31_KeyRoutes ==
    [][(obs'.last_op = "toggle_mute" /\ app.active_mix_index = 0
           /\ app.active_strip_index = BusIndex) =>
          /\ ps'.mixes = ps.mixes
          /\ Len(obs'.sent) = 1
          /\ obs'.sent[1].cmd = set_button("Mute", ~ps.main_mute)]_vars

\* No mixer-state file was loaded, and a click on the M button of the GUI's
\* bus strip has set the mute flag of the Main strip.
C31_Witness ==
    /\ app.frontend = "gui"
    /\ ~env.config.present
    /\ obs.last_op = "update"
    /\ obs.input.kind = "mute"
    /\ obs.input.strip = BusIndex
    /\ ps.mixes[0].bus_strip.mute

-----------------------------------------------------------------------------
(* Properties of the value transform outside the MIDI range *)

\* C32: for every attached ValueRange and every raw MIDI value 0 .. 127 the
\* transformed value lies between target_min and target_max, the raw value
\* being normalized into [0, 1] across [midi_min, midi_max] first, also for
\* raw values below midi_min or above midi_max.
C32_InRange ==
    (/\ obs.transform.called
     /\ C16_Entry # None
     /\ C16_Entry[1].value_range # None) =>
        LET range == C16_Entry[1].value_range[1]
            result == obs.transform.result
            low == IF range.target_min < range.target_max THEN range.target_min
                   ELSE range.target_max
            high == IF range.target_min < range.target_max THEN range.target_max
                    ELSE range.target_min
        IN  result \notin {NaN, PosInf, NegInf} /\ low <= result /\ result <= high

\* What transform does with a raw value inside [midi_min, midi_max],
\* midi_min < midi_max: the result lies between the targets.
C32_InRangeInside ==
    (/\ obs.transform.called
     /\ C16_Entry # None
     /\ C16_Entry[1].value_range # None
     /\ obs.transform.midi_value >= C16_Entry[1].value_range[1].midi_min
     /\ obs.transform.midi_value <= C16_Entry[1].value_range[1].midi_max) =>
        LET range == C16_Entry[1].value_range[1]
            result == obs.transform.result
            low == IF range.target_min < range.target_max THEN range.target_min
                   ELSE range.target_max
            high == IF range.target_min < range.target_max THEN range.target_max
                    ELSE range.target_min
        IN  result \notin {NaN, PosInf, NegInf} /\ low <= result /\ result <= high

\* The byte 127 has been transformed by the linear range 0..100 -> 0..100: the
\* result is 127.
C32_Witness ==
    /\ obs.transform.called
    /\ C16_Entry # None
    /\ C16_Entry[1].value_range = Some(ValueRange(0, 100, 0, 1000, "Linear"))
    /\ obs.transform.midi_value = 127
    /\ obs.transform.result = 1270


(* Properties of the structure of the mixer state *)

\* C33: in every reachable state there are 9 mixes, each with 36 channel
\* strips of kind Channel numbered by their index with the range -96..+10 dB,
\* and a bus strip numbered by the mix, of kind Main for mix 0 and Bus for the
\* others; nothing, load_config included, changes this.
C33_Structure ==
    /\ DOMAIN ps.mixes = 0 .. 8
    /\ \A i \in DOMAIN ps.mixes :
          /\ DOMAIN ps.mixes[i].channel_strips = 0 .. 35
          /\ \A j \in DOMAIN ps.mixes[i].channel_strips :
                LET strip == ps.mixes[i].channel_strips[j]
                IN  /\ strip.kind = "Channel" /\ strip.number = j
                    /\ strip.min = -960 /\ strip.max = 100
          /\ ps.mixes[i].bus_strip.number = i
          /\ ps.mixes[i].bus_strip.kind = (IF i = 0 THEN "Main" ELSE "Bus")
          /\ ps.mixes[i].bus_strip.min = -960 /\ ps.mixes[i].bus_strip.max = 100

C33_Unchanged ==
    [][/\ DOMAIN ps'.mixes = DOMAIN ps.mixes
       /\ \A i \in DOMAIN ps.mixes :
             /\ DOMAIN ps'.mixes[i].channel_strips = DOMAIN ps.mixes[i].channel_strips
             /\ \A j \in 0 .. 36 :
                   LET old == StripNth(ps.mixes[i], j)
                       new == StripNth(ps'.mixes[i], j)
                   IN  <<new.kind, new.number, new.min, new.max>>
                           = <<old.kind, old.number, old.min, old.max>>]_vars

\* A state file with edited strips has been loaded at start-up.
C33_Witness ==
    /\ obs.last_op = "startup" /\ env.config.present /\ ~app.aborted
    /\ env.config.edits # << >>
    /\ \E i \in Mixes, j \in Channels : Persisted(ps.mixes[i].channel_strips[j]) # Persisted(NewStrip("Channel", j))


(* Properties of the mapping's order *)

Occurrences(mappings, entry) ==
    Cardinality({i \in 1 .. Len(mappings) : mappings[i] = entry})

Ordered(mappings) ==
    \A i \in 1 .. Len(mappings) - 1 :
        LET a == mappings[i].midi
            b == mappings[i + 1].midi
        IN  a.channel < b.channel \/ (a.channel = b.channel /\ a.cc <= b.cc)

\* C34: the save of the mapping on leaving the front-end leaves the entries in
\* nondecreasing order of channel, then controller number, each entry as often
\* as before and none altered; sorting the result again changes nothing.
C34_SortMappings ==
    [][(obs'.last_op = "exit" /\ ~app'.aborted /\ app.config_dir) =>
          /\ Ordered(app'.midi_mapping)
          /\ Len(app'.midi_mapping) = Len(app.midi_mapping)
          /\ \A i \in 1 .. Len(app.midi_mapping) :
                Occurrences(app'.midi_mapping, app.midi_mapping[i])
                    = Occurrences(app.midi_mapping, app.midi_mapping[i])
          /\ sort_mappings(app'.midi_mapping) = app'.midi_mapping]_vars

\* After every save of the mapping the mapping held is in this order.
C34_SavedOrdered ==
    [][(obs'.save_calls > 0 /\ app.config_dir) => Ordered(app'.midi_mapping)]_vars

\* A mapping read in another order, with two entries of one key, has been
\* saved.
C34_Witness ==
    /\ obs.last_op = "exit" /\ obs.saves = 1
    /\ Len(app.midi_mapping) = 3
    /\ app.midi_mapping[1].midi = MidiControl(0, 7)
    /\ app.midi_mapping[2].midi = app.midi_mapping[3].midi
    /\ app.midi_mapping[2].target # app.midi_mapping[3].target
    /\ mapping_from_str(env.mapping_file) = Some(app.midi_mapping)


(* Properties of the mapping's keys *)

Hits(mappings, midi) == {i \in 1 .. Len(mappings) : mappings[i].midi = midi}

\* C35: no two entries of the mapping have the same channel and controller
\* number, so that a control with an entry has exactly one, and get_target and
\* transform_value answer from it.
C35_DistinctKeys ==
    /\ \A i, j \in 1 .. Len(app.midi_mapping) :
          app.midi_mapping[i].midi = app.midi_mapping[j].midi => i = j
    /\ \A msg \in env.controller :
          LET midi == MidiControl(msg.channel, msg.controller)
              hits == Hits(app.midi_mapping, midi)
          IN  hits # {} =>
                 /\ Cardinality(hits) = 1
                 /\ \A i \in hits :
                       LET entry == app.midi_mapping[i]
                       IN  /\ get_target(app.midi_mapping, midi) = Some(entry.target)
                           /\ \A value \in {0, 64, 127} :
                                 transform_value(app.midi_mapping, midi, value)
                                     = IF entry.value_range = None THEN 10 * value
                                       ELSE ValueRange_transform(entry.value_range[1], value)

\* A control the mapping had an entry for has been learned for another target.
C35_Witness ==
    /\ obs.save_calls = 1
    /\ ~app.midi_learn_state.learning
    /\ \E i \in 1 .. Len(app.midi_mapping) :
          /\ app.midi_mapping[i].midi = MidiControl(0, 1)
          /\ app.midi_mapping[i].target.control = "Balance"

\* An entry has been removed.
C35_Removed ==
    /\ obs.last_op = "remove_mapping"
    /\ Hits(app.midi_mapping, MidiControl(0, 1)) = {}
    /\ Len(app.midi_mapping) > 0


(* Properties of the cached switches *)

Cached(state) ==
    [Phantom |-> state.phantom_power, Line |-> state.in_1_2_line,
     Mute |-> state.main_mute, Mono |-> state.main_mono]

\* C36: the cached switches change only in a step with a successful poll, and
\* every button command of a step carries the opposite of the flag as cached
\* when the step ends; so two toggles of one switch with no successful poll
\* between them send the same value.
C36_CachedSwitches ==
    [][/\ Cached(ps') # Cached(ps) =>
             env'.exchanges = env.exchanges + 1 /\ obs'.poll_ok
       /\ \A k \in 1 .. Len(obs'.sent) :
             obs'.sent[k].cmd.mode = "button" =>
                obs'.sent[k].cmd.value = VBool(~Cached(ps')[obs'.sent[k].cmd.output_channel])]_vars

\* Two toggles of one switch in one batch: the same command twice, both
\* received.
C36_Witness ==
    /\ Len(obs.sent) = 2
    /\ obs.sent[1].cmd.mode = "button"
    /\ obs.sent[2].cmd = obs.sent[1].cmd
    /\ obs.sent[1].ok /\ obs.sent[2].ok


(* Properties of a batch of Control-Changes while learning *)

\* The range a learned entry of a control gets.
LearnedRange(control) ==
    IF control = "Fader" THEN Some(ValueRange(0, 127, -500, 100, "Linear"))
    ELSE IF control = "Balance" THEN Some(ValueRange(0, 127, -1000, 1000, "Linear"))
    ELSE None

\* The batch is processed while learning, with no click in the frame.
BatchWhileLearning ==
    /\ app.midi_learn_state.learning /\ app.midi_input /\ env.queue # << >>
    /\ env'.exchanges = env.exchanges + 1
    /\ obs'.last_op = "on_tick" \/ (obs'.last_op = "update" /\ obs'.input.kind = "none")

\* What the second Control-Change of the batch addresses once the first has
\* been learned: the learned target when it repeats the first, else the entry
\* the mapping had for it.
SecondEntry ==
    LET first == MidiControl(env.queue[1].channel, env.queue[1].controller)
        second == MidiControl(env.queue[2].channel, env.queue[2].controller)
        hits == Hits(app.midi_mapping, second)
    IN  IF second = first
        THEN Some(MidiMappingEntry(second, app.midi_learn_state.target,
                                   LearnedRange(app.midi_learn_state.target.control)))
        ELSE IF hits = {} THEN None
        ELSE Some(app.midi_mapping[CHOOSE i \in hits : \A j \in hits : i <= j])

\* The mixes and the commands after the second Control-Change is dispatched.
SecondDispatched ==
    LET entry == SecondEntry
        raw == env.queue[2].value
        value == IF entry[1].value_range = None THEN 10 * raw
                 ELSE ValueRange_transform(entry[1].value_range[1], raw)
        w == Begin(World, "dispatch")
        after == IF entry = None \/ entry[1].target.kind # "Strip" THEN w
                 ELSE IF app.frontend = "tui"
                 THEN handle_strip_control(w, entry[1].target, value, {})
                 ELSE gui_handle_strip_control(w, entry[1].target, value, raw, {})
    IN  [mixes |-> after.ps.mixes, sent |-> after.obs.sent]

\* C37: of a batch processed while learning, the first Control-Change is
\* learned and drives nothing; a second one is dispatched as outside the
\* learn mode, against the mapping with the learned entry.
C37_FirstOnlyLearns ==
    [][BatchWhileLearning =>
          /\ ~app'.midi_learn_state.learning
          /\ \E i \in 1 .. Len(app'.midi_mapping) :
                /\ app'.midi_mapping[i].midi
                       = MidiControl(env.queue[1].channel, env.queue[1].controller)
                /\ app'.midi_mapping[i].target = app.midi_learn_state.target
          /\ Len(env.queue) = 1 => ps'.mixes = ps.mixes /\ obs'.sent = << >>
          /\ Len(env.queue) = 2 =>
                /\ ps'.mixes = SecondDispatched.mixes
                /\ obs'.sent = SecondDispatched.sent]_vars

\* The balance was learned from the first Control-Change of a batch and its
\* repeat in the same batch has set the balance through the learned range.
C37_Witness ==
    /\ obs.last_op \in {"on_tick", "update"}
    /\ ~app.midi_learn_state.learning
    /\ \E i \in 1 .. Len(app.midi_mapping) :
          /\ app.midi_mapping[i].midi = MidiControl(3, 77)
          /\ app.midi_mapping[i].target = StripTarget(0, 0, "Balance")
    /\ ps.mixes[0].channel_strips[0].balance = -1000
    /\ Len(obs.sent) = 2


(* Properties of the balance keys *)

BalanceKeys == {"increment_balance", "center_balance"}

\* C39: the balance keys complete for every active strip, the bus strip
\* included.
C39_Completes == obs.last_op \in BalanceKeys => ~app.aborted

\* On a channel strip the balance keys leave the balance within -100 .. +100,
\* change that strip only and send its two commands.
C39_ChannelStrip ==
    [][(obs'.last_op \in BalanceKeys /\ app.active_strip_index < 36) =>
          LET mix == app.active_mix_index
              index == app.active_strip_index
              strip == ps'.mixes[mix].channel_strips[index]
          IN  /\ ~app'.aborted
              /\ strip.balance >= -1000 /\ strip.balance <= 1000
              /\ strip.balance =
                    IF obs'.last_op = "center_balance" THEN 0
                    ELSE LET moved == ps.mixes[mix].channel_strips[index].balance
                                          + obs'.input.value
                         IN  IF moved < -1000 THEN -1000
                             ELSE IF moved > 1000 THEN 1000 ELSE moved
              /\ ps'.mixes = [ps.mixes EXCEPT ![mix].channel_strips[index].balance =
                                                  strip.balance]
              /\ Len(obs'.sent) = 2
              /\ \A k \in 1 .. 2 :
                    /\ obs'.sent[k].cmd.mode = "input"
                    /\ obs'.sent[k].cmd.input_strip = index]_vars

\* A balance key was pressed with the bus strip active.
C39_Witness ==
    /\ obs.last_op \in BalanceKeys
    /\ app.active_strip_index = 36
    /\ app.aborted


(* Properties of the active mix and strip *)

ValidTarget(target) ==
    target.kind = "Strip" =>
        target.mix_index \in 0 .. 8 /\ target.strip_index \in 0 .. 36

\* In the terminal UI the active mix is one of the 9 and the active strip one
\* of the 37 of a mix, and every strip target of the learn state and of the
\* mapping addresses a strip there is.
C38_ActiveInRange ==
    /\ app.active_mix_index \in 0 .. 8
    /\ app.active_strip_index \in 0 .. 36
    /\ app.midi_learn_state.learning => ValidTarget(app.midi_learn_state.target)
    /\ \A i \in 1 .. Len(app.midi_mapping) : ValidTarget(app.midi_mapping[i].target)

\* A batch of one selector Control-Change sets the active mix to
\* min(8, floor(value * 8 / 127)) or the active strip to floor(value * 10 / 127).
C38_Select ==
    [][(/\ env'.exchanges = env.exchanges + 1
        /\ Len(env.queue) = 1
        /\ ~app.midi_learn_state.learning) =>
          LET msg == env.queue[1]
              hits == Hits(app.midi_mapping, MidiControl(msg.channel, msg.controller))
          IN  \A i \in hits :
                 /\ app.midi_mapping[i].target.control = "ActiveMixSelect" =>
                       app'.active_mix_index
                           = (IF msg.value = 127 THEN 8 ELSE (msg.value * 8) \div 127)
                 /\ app.midi_mapping[i].target.control = "ActiveStripSelect" =>
                       app'.active_strip_index = (msg.value * 10) \div 127]_vars

\* C38: with the active indices in their ranges no lookup of the active strip
\* fails, so no handler of the terminal UI panics.
C38_LookupsSucceed == ~app.aborted

\* The active indices are in their ranges and the handler of 'c' has failed
\* on the lookup of the active strip.
C38_Witness ==
    /\ app.active_mix_index \in 0 .. 8
    /\ app.active_strip_index \in 0 .. 36
    /\ obs.last_op = "center_balance"
    /\ app.aborted


(* Properties of the device's mixer against the model *)

\* The value the device received last for every side of every channel strip
\* and for every bus strip is the wire value of the model's strip.
InSync(state, dev) ==
    \A i \in 0 .. 8 :
        LET mix == state.mixes[i]
            bus == mix.bus_strip
        IN  /\ dev.output[i] = (IF bus.mute \/ bus.mute_by_solo THEN VMuted
                                ELSE VDB(bus.fader))
            /\ \A c \in 0 .. 35 :
                  LET strip == mix.channel_strips[c]
                      pan == pan_rule(strip, "Exponential")
                      silent == (strip.mute \/ strip.mute_by_solo) /\ ~strip.solo
                  IN  /\ dev.input[i][c]["Left"] = (IF silent THEN VMuted ELSE VDB(pan.left))
                      /\ dev.input[i][c]["Right"] = (IF silent THEN VMuted ELSE VDB(pan.right))

\* The step ran a full write_state and nothing failed.
FullWrite ==
    /\ Len(obs'.sent) >= 657
    /\ \A k \in 1 .. Len(obs'.sent) : obs'.sent[k].ok
    /\ ~app'.aborted

\* C40: with bypass off and no send failing, a step that runs a full
\* write_state leaves the device in sync with the model, and every step from a
\* state in sync leaves it in sync.
C40_DeviceFollows ==
    [][(/\ ~app'.bypass
        /\ \A k \in 1 .. Len(obs'.sent) : obs'.sent[k].ok
        /\ InSync(ps, device) \/ FullWrite) => InSync(ps', device')]_vars

\* After a file was loaded and written, a Control-Change has moved the fader
\* of the first strip, two commands were sent and the device is in sync with
\* the model.
C40_Witness ==
    /\ env.config.present /\ ~app.aborted
    /\ env.exchanges = 1
    /\ ps.mixes[0].channel_strips[0].fader # -605
    /\ Len(obs.sent) = 2
    /\ InSync(ps, device)

====
